----------------------------- MODULE AdminPageProofs -----------------------------
(***************************************************************************)
(* Proofs about the administrator's page: the editor of transform rules,   *)
(* the cron job dialog, the graph of sessions, the session drawer and the  *)
(* tables, for any number of rows, sessions, messages and calls.           *)
(***************************************************************************)
EXTENDS RuleEditor, CronForm, SessionGraph, SessionDrawer, GatewayTables,
        FiniteSetTheorems, SequenceTheorems, TLAPS

-------------------------------------------------------------------------------
(* The editor of transform rules, for lists of any length.                  *)

\* A list of rules survives the way into a text and back.
LEMMA ParsedList == ASSUME NEW list PROVE Parsed(ListText(list)) = list
BY DEF Parsed, ListText

\* The lists of rules: what the editor does to one makes another.
LEMMA ListsOfRules ==
  ASSUME NEW list
  PROVE  list \in RuleLists <=> list \in Seq({"blank", "filled"}) /\ Len(list) <= MaxRules
<1>1. ASSUME list \in RuleLists
      PROVE  list \in Seq({"blank", "filled"}) /\ Len(list) <= MaxRules
  <2>1. PICK m \in 0..MaxRules : list \in [1..m -> {"blank", "filled"}]
    BY <1>1, RuleAssumption DEF RuleLists, BoundedSeq, SeqOf
  <2> QED  BY <2>1, RuleAssumption
<1>2. ASSUME list \in Seq({"blank", "filled"}), Len(list) <= MaxRules
      PROVE  list \in RuleLists
  <2>1. list \in [1..Len(list) -> {"blank", "filled"}] /\ Len(list) \in 0..MaxRules
    BY <1>2, RuleAssumption
  <2> QED  BY <2>1 DEF RuleLists, BoundedSeq, SeqOf
<1> QED  BY <1>1, <1>2

LEMMA NoRules == <<>> \in RuleLists
<1>1. PICK list : list = <<>>
  OBVIOUS
<1>2. list \in Seq({"blank", "filled"}) /\ Len(list) <= MaxRules
  BY <1>1, RuleAssumption
<1> QED  BY <1>1, <1>2, ListsOfRules

LEMMA ListsEdited ==
  ASSUME NEW list \in RuleLists
  PROVE  /\ <<>> \in RuleLists
         /\ Len(list) < MaxRules => Append(list, "blank") \in RuleLists
         /\ \A i \in DOMAIN list : RemoveAt(list, i) \in RuleLists
         /\ \A i \in DOMAIN list : \A rule \in {"blank", "filled"} :
              [list EXCEPT ![i] = rule] \in RuleLists
<1> DEFINE Rule == {"blank", "filled"}
<1>0. list \in Seq(Rule) /\ Len(list) <= MaxRules /\ MaxRules \in Nat
  BY ListsOfRules, RuleAssumption
<1>1. <<>> \in RuleLists
  BY NoRules
<1>2. ASSUME Len(list) < MaxRules PROVE Append(list, "blank") \in RuleLists
  <2>1. Append(list, "blank") \in Seq(Rule) /\ Len(Append(list, "blank")) <= MaxRules
    BY <1>0, <1>2
  <2> QED  BY <2>1, ListsOfRules
<1>3. ASSUME NEW i \in DOMAIN list PROVE RemoveAt(list, i) \in RuleLists
  <2> DEFINE before == SubSeq(list, 1, i - 1)
             after == SubSeq(list, i + 1, Len(list))
  <2>1. i \in 1..Len(list)
    BY <1>0
  <2>2. before \in Seq(Rule) /\ Len(before) = i - 1
    BY <1>0, <2>1
  <2>3. after \in Seq(Rule) /\ Len(after) = Len(list) - i
    BY <1>0, <2>1
  <2> HIDE DEF before, after
  <2>4. (before \o after) \in Seq(Rule) /\ Len(before \o after) <= MaxRules
    BY <1>0, <2>1, <2>2, <2>3
  <2>5. RemoveAt(list, i) = before \o after
    BY DEF RemoveAt, before, after
  <2> QED  BY <2>4, <2>5, ListsOfRules
<1>4. ASSUME NEW i \in DOMAIN list, NEW rule \in Rule
      PROVE  [list EXCEPT ![i] = rule] \in RuleLists
  <2>1. [list EXCEPT ![i] = rule] \in Seq(Rule) /\ Len([list EXCEPT ![i] = rule]) <= MaxRules
    BY <1>0
  <2> QED  BY <2>1, ListsOfRules
<1> QED  BY <1>1, <1>2, <1>3, <1>4

\* Whatever a text is, the rules made of it are a list.
LEMMA RulesParsed ==
  ASSUME NEW text \in RuleTexts
  PROVE  Parsed(text) \in RuleLists /\ ListText(Parsed(text)) \in RuleTexts
<1>1. Parsed(text) \in RuleLists
  BY NoRules DEF RuleTexts, Parsed, ListText, Text
<1> QED  BY <1>1 DEF RuleTexts, ListText

\* The three copies, and what the dialog and its saves are in.
CopyTypes ==
    /\ original \in RuleTexts /\ formRules \in RuleTexts /\ rawRules \in RuleTexts
    /\ ruleList \in RuleLists /\ tab \in {"visual", "json"}
FrameTypes ==
    /\ dialogOpen \in BOOLEAN /\ editorOpen \in BOOLEAN /\ remounted \in BOOLEAN
    /\ ruleSave \in BOOLEAN

LEMMA RulesTyped ==
  ASSUME CopyTypes, NEW list \in RuleLists, SetRules(list), UNCHANGED original,
         tab' \in {"visual", "json"}
  PROVE  CopyTypes'
BY DEF CopyTypes, SetRules, RuleTexts, ListText

LEMMA CopiesStep ==
  ASSUME CopyTypes, [RuleNext]_ruleVars
  PROVE  CopyTypes'
<1> USE DEF ruleDialog, ruleEditor
<1>1. ASSUME NEW rules \in RuleTexts, OpenHook(rules)  PROVE CopyTypes'
  BY <1>1, RulesParsed DEF OpenHook, Mount, CopyTypes
<1>2. ASSUME NEW text \in RuleTexts, TypeRules(text) \/ TypeRaw(text)  PROVE CopyTypes'
  BY <1>2, RulesParsed DEF TypeRules, TypeRaw, CopyTypes
<1>3. ASSUME NEW i, RemoveRule(i)  PROVE CopyTypes'
  <2>1. RemoveAt(ruleList, i) \in RuleLists
    BY <1>3, ListsEdited DEF RemoveRule, CopyTypes
  <2> QED  BY <1>3, <2>1, RulesTyped DEF RemoveRule, CopyTypes
<1>4. ASSUME NEW i, UpdateRule(i)  PROVE CopyTypes'
  <2>1. PICK rule \in {"blank", "filled"} : SetRules([ruleList EXCEPT ![i] = rule])
    BY <1>4 DEF UpdateRule
  <2>2. [ruleList EXCEPT ![i] = rule] \in RuleLists
    BY <1>4, ListsEdited DEF UpdateRule, CopyTypes
  <2> QED  BY <1>4, <2>1, <2>2, RulesTyped DEF UpdateRule, CopyTypes
<1>5. CASE AddRule
  <2>1. Append(ruleList, "blank") \in RuleLists
    BY <1>5, ListsEdited DEF AddRule, CopyTypes
  <2> QED  BY <1>5, <2>1, RulesTyped DEF AddRule, CopyTypes
<1>6. CASE ToVisual
  BY <1>6, RulesParsed, RulesTyped DEF ToVisual, CopyTypes
<1>7. CASE ToJson
  BY <1>7 DEF ToJson, CopyTypes, RuleTexts, ListText
<1>8. CASE CloseHook \/ RulesAnswered
  BY <1>8 DEF CloseHook, RulesAnswered, Close, CopyTypes
<1>9. CASE ToggleEditor
  BY <1>9, RulesParsed DEF ToggleEditor, Mount, CopyTypes
<1>10. CASE SubmitRules \/ UNCHANGED ruleVars
  BY <1>10 DEF SubmitRules, ruleVars, CopyTypes
<1> QED
  BY <1>1, <1>2, <1>3, <1>4, <1>5, <1>6, <1>7, <1>8, <1>9, <1>10 DEF RuleNext

LEMMA FrameStep ==
  ASSUME FrameTypes, [RuleNext]_ruleVars
  PROVE  FrameTypes'
<1> USE DEF ruleDialog, FrameTypes
<1>1. ASSUME NEW rules, OpenHook(rules) \/ TypeRules(rules) \/ TypeRaw(rules)  PROVE FrameTypes'
  BY <1>1, Zenon DEF OpenHook, TypeRules, TypeRaw
<1>2. ASSUME NEW i, RemoveRule(i) \/ UpdateRule(i)  PROVE FrameTypes'
  BY <1>2, Zenon DEF RemoveRule, UpdateRule
<1>3. CASE AddRule \/ ToVisual \/ ToJson \/ CloseHook \/ RulesAnswered
  BY <1>3, Zenon DEF AddRule, ToVisual, ToJson, CloseHook, RulesAnswered, Close
<1>4. CASE ToggleEditor \/ SubmitRules \/ UNCHANGED ruleVars
  BY <1>4, Zenon DEF ToggleEditor, SubmitRules, ruleVars
<1> QED  BY <1>1, <1>2, <1>3, <1>4 DEF RuleNext

LEMMA CopiesStart == RuleInit => CopyTypes
BY NoRules DEF RuleInit, CopyTypes, RuleTexts, ListText, Text

\* A change in the visual tab reaches all three copies.
LEMMA RulesSet ==
  ASSUME NEW list, SetRules(list), tab' = "visual"
  PROVE  EditorHoldsForm'
BY DEF SetRules, EditorHoldsForm, RulesShown

\* A text that is a list is the text of its rules.
LEMMA ListOfText ==
  ASSUME NEW text \in RuleTexts, text.kind = "list"
  PROVE  text = ListText(Parsed(text))
BY DEF RuleTexts, Text, ListText, Parsed

LEMMA EditorStep ==
  ASSUME CopyTypes, EditorHoldsForm, [RuleNext]_ruleVars
  PROVE  EditorHoldsForm'
<1> USE DEF RulesShown
<1>1. ASSUME NEW rules \in RuleTexts, OpenHook(rules)  PROVE EditorHoldsForm'
  BY <1>1 DEF OpenHook, EditorHoldsForm
<1>2. ASSUME NEW text \in RuleTexts, TypeRules(text)  PROVE EditorHoldsForm'
  BY <1>2 DEF TypeRules, EditorHoldsForm, ruleDialog
<1>3. ASSUME NEW text \in RuleTexts, TypeRaw(text)  PROVE EditorHoldsForm'
  <2>1. formRules' = ListText(Parsed(rawRules')) /\ tab' = "json"
    BY <1>3 DEF TypeRaw, Editing
  <2> QED  BY <2>1 DEF EditorHoldsForm, Parsed
<1>4. ASSUME NEW i, RemoveRule(i) \/ UpdateRule(i)  PROVE EditorHoldsForm'
  BY <1>4, RulesSet DEF RemoveRule, UpdateRule, Editing
<1>5. CASE AddRule
  BY <1>5, RulesSet DEF AddRule, Editing
<1>6. CASE CloseHook
  BY <1>6 DEF CloseHook, Close, EditorHoldsForm
<1>7. CASE ToggleEditor
  <2>1. CASE editorOpen
    BY <1>7, <2>1 DEF ToggleEditor, EditorHoldsForm
  <2>2. CASE ~editorOpen
    <3>1. /\ formRules' = formRules /\ tab' = "visual"
          /\ ruleList' = Parsed(formRules) /\ rawRules' = ListText(Parsed(formRules))
      BY <1>7, <2>2 DEF ToggleEditor, Mount
    <3>2. formRules.kind = "list" => formRules = ListText(Parsed(formRules))
      BY ListOfText DEF CopyTypes
    <3> QED  BY <3>1, <3>2 DEF EditorHoldsForm, Parsed
  <2> QED  BY <2>1, <2>2
<1>8. CASE ToVisual
  BY <1>8, RulesSet DEF ToVisual
<1>9. CASE ToJson
  <2>1. /\ Parsed(rawRules') = ruleList /\ rawRules' = ListText(ruleList) /\ tab' = "json"
        /\ tab = "visual" /\ UNCHANGED <<formRules, ruleList, dialogOpen, editorOpen, remounted>>
    BY <1>9, ParsedList DEF ToJson, Editing, ruleDialog
  <2> QED  BY <2>1 DEF EditorHoldsForm, Parsed
<1>10. CASE RulesAnswered
  BY <1>10 DEF RulesAnswered, Close, EditorHoldsForm, ruleEditor, Parsed
<1>11. CASE SubmitRules \/ UNCHANGED ruleVars
  BY <1>11 DEF SubmitRules, ruleVars, ruleDialog, ruleEditor, EditorHoldsForm, Parsed
<1> QED
  BY <1>1, <1>2, <1>3, <1>4, <1>5, <1>6, <1>7, <1>8, <1>9, <1>10, <1>11 DEF RuleNext

\* A save stores exactly the rules the editor shows, however the two tabs, the
\* form's own text and the dialog are used, but for a text that was no list and is
\* still untouched (WebhookTransformEditor, WebhookDialog).
THEOREM EditorKeepsForm == RuleSpec => []EditorHoldsForm
<1>1. RuleInit => CopyTypes /\ EditorHoldsForm
  BY CopiesStart DEF RuleInit, EditorHoldsForm
<1> QED  BY <1>1, CopiesStep, EditorStep, PTL DEF RuleSpec

\* The copies of the rules are lists and texts of at most MaxRules rules.
THEOREM RuleTyping == RuleSpec => []RuleTypeOK
<1>1. RuleInit => CopyTypes
  BY CopiesStart
<1>2. RuleInit => FrameTypes
  BY Zenon DEF RuleInit, FrameTypes
<1>3. CopyTypes /\ FrameTypes => RuleTypeOK
  BY DEF CopyTypes, FrameTypes, RuleTypeOK
<1> QED  BY <1>1, <1>2, <1>3, CopiesStep, FrameStep, PTL DEF RuleSpec

-------------------------------------------------------------------------------
(* The cron job dialog, for any set of schedules and any number of changes. *)

\* Unless previews have overlapped, the only one under way is of the schedule in
\* the form, if no other is due, and with none under way the verdict is about it.
PreviewIsOfSchedule ==
    (~timer /\ ~crossed /\ schedule # Empty) =>
        /\ previews \subseteq {schedule}
        /\ previews = {} => verdict.about \in {Nothing, schedule}

LEMMA InitialPreview == ASSUME CronInit PROVE PreviewIsOfSchedule
BY DEF CronInit, PreviewIsOfSchedule

\* A change of the form's schedule makes a preview due; with none due it is the
\* schedule that it was.
LEMMA ScheduleKept ==
  ASSUME PreviewIsOfSchedule, NEW token, SetSchedule(token),
         previews' = previews, crossed' = crossed,
         verdict' \in {verdict, NoVerdict}
  PROVE  PreviewIsOfSchedule'
<1> SUFFICES ASSUME ~timer', ~crossed', schedule' # Empty
             PROVE  /\ previews' \subseteq {schedule'}
                    /\ previews' = {} => verdict'.about \in {Nothing, schedule'}
  BY DEF PreviewIsOfSchedule
<1>1. ~timer /\ ~crossed /\ schedule' = schedule
  BY DEF SetSchedule
<1> QED  BY <1>1 DEF PreviewIsOfSchedule, NoVerdict

LEMMA PreviewStep ==
  ASSUME PreviewIsOfSchedule, [CronNext]_cronVars
  PROVE  PreviewIsOfSchedule'
<1>1. ASSUME NEW token \in Tokens, OpenJob(token)  PROVE PreviewIsOfSchedule'
  BY <1>1, ScheduleKept DEF OpenJob
<1>2. ASSUME NEW token, TypeSchedule(token)  PROVE PreviewIsOfSchedule'
  BY <1>2, ScheduleKept DEF TypeSchedule
<1>3. ASSUME NEW token \in Tokens, BuildSchedule(token)  PROVE PreviewIsOfSchedule'
  BY <1>3, ScheduleKept DEF BuildSchedule
<1>4. ASSUME NEW token \in Schedules, ShowPreview(token)  PROVE PreviewIsOfSchedule'
  <2> SUFFICES ASSUME ~timer', ~crossed', schedule' # Empty
               PROVE  previews' = {} /\ verdict'.about = schedule'
    BY DEF PreviewIsOfSchedule
  <2>1. ~timer /\ ~crossed /\ schedule' = schedule
    BY <1>4 DEF ShowPreview
  <2>2. previews = {schedule} /\ token = schedule
    BY <1>4, <2>1 DEF ShowPreview, PreviewIsOfSchedule
  <2>3. verdict'.about = token
    BY <1>4 DEF ShowPreview
  <2> QED  BY <1>4, <2>1, <2>2, <2>3 DEF ShowPreview
<1>5. CASE CloseJob
  BY <1>5, ScheduleKept DEF CloseJob, ResetJob
<1>6. CASE ShowBuilder
  BY <1>6, ScheduleKept DEF ShowBuilder
<1>7. CASE AskPreview
  BY <1>7 DEF AskPreview, PreviewIsOfSchedule
<1>8. CASE JobSaved
  <2>1. CASE jobOpen
    BY <1>8, <2>1, ScheduleKept DEF JobSaved, ResetJob
  <2>2. CASE ~jobOpen
    BY <1>8, <2>2 DEF JobSaved, PreviewIsOfSchedule
  <2> QED  BY <2>1, <2>2
<1>9. CASE LeaveBuilder \/ SubmitJob \/ JobNotSaved \/ UNCHANGED cronVars
  BY <1>9 DEF LeaveBuilder, SubmitJob, JobNotSaved, cronVars, PreviewIsOfSchedule
<1> QED
  BY <1>1, <1>2, <1>3, <1>4, <1>5, <1>6, <1>7, <1>8, <1>9 DEF CronNext

\* The verdict shown beside a schedule, which disables the button, is about that
\* schedule once its preview is answered, unless the schedule is cleared: of
\* CronJobDialog's debounced effect.
THEOREM VerdictStaysCurrent == CronSpec => []VerdictIsCurrent
<1>1. PreviewIsOfSchedule => VerdictIsCurrent
  BY DEF PreviewIsOfSchedule, VerdictIsCurrent
<1> QED  BY InitialPreview, PreviewStep, <1>1, PTL DEF CronSpec

\* The schedules the dialog deals with, and the verdict on one of them.
ScheduleTypes ==
    /\ jobSchedule \in Schedules /\ schedule \in Schedules /\ previews \subseteq Schedules
    /\ jobSave \in Schedules \cup {Nothing} /\ drafts \in 0..MaxDrafts
    /\ verdict.about \in Schedules \cup {Nothing}
SwitchTypes ==
    /\ jobOpen \in BOOLEAN /\ building \in BOOLEAN /\ timer \in BOOLEAN /\ crossed \in BOOLEAN
    /\ verdict.valid \in BOOLEAN

LEMMA SchedulesStep ==
  ASSUME ScheduleTypes, [CronNext]_cronVars
  PROVE  ScheduleTypes'
<1>0. /\ \A token : SetSchedule(token) => schedule' = token
      /\ NoVerdict.about = Nothing
  BY DEF SetSchedule, NoVerdict
<1> USE <1>0, CronAssumption DEF ScheduleTypes, Schedules, Draft
<1>1. ASSUME NEW token \in Tokens \cup {Empty}, OpenJob(token) \/ TypeSchedule(token) \/ BuildSchedule(token)
      PROVE  ScheduleTypes'
  <2>1. schedule' \in Schedules /\ drafts' \in 0..MaxDrafts
    BY <1>1 DEF OpenJob, TypeSchedule, BuildSchedule
  <2>2. /\ jobSchedule' \in Schedules /\ verdict'.about \in Schedules \cup {Nothing}
        /\ previews' = previews /\ jobSave' = jobSave
    BY <1>1 DEF OpenJob, TypeSchedule, BuildSchedule
  <2> QED  BY <2>1, <2>2
<1>2. ASSUME NEW token \in Schedules, ShowPreview(token)  PROVE ScheduleTypes'
  BY <1>2 DEF ShowPreview
<1>3. CASE CloseJob \/ JobSaved
  BY <1>3 DEF CloseJob, JobSaved, ResetJob
<1>4. CASE ShowBuilder
  BY <1>4 DEF ShowBuilder, Rebuilt
<1>5. CASE LeaveBuilder \/ AskPreview \/ SubmitJob \/ JobNotSaved
  BY <1>5 DEF LeaveBuilder, AskPreview, SubmitJob, JobNotSaved
<1>6. CASE UNCHANGED cronVars
  BY <1>6 DEF cronVars
<1> QED  BY <1>1, <1>2, <1>3, <1>4, <1>5, <1>6 DEF CronNext

LEMMA SwitchesStep ==
  ASSUME SwitchTypes, [CronNext]_cronVars
  PROVE  SwitchTypes'
<1> USE DEF SwitchTypes, SetSchedule
<1>0. NoVerdict.valid \in BOOLEAN
  BY DEF NoVerdict
<1>1. ASSUME NEW token, OpenJob(token) \/ TypeSchedule(token) \/ BuildSchedule(token)
      PROVE  SwitchTypes'
  BY <1>0, <1>1, Zenon DEF OpenJob, TypeSchedule, BuildSchedule
<1>2. ASSUME NEW token, ShowPreview(token)  PROVE SwitchTypes'
  <2>1. verdict'.valid \in BOOLEAN
    <3>1. ValidToken(token) \in BOOLEAN
      BY DEF ValidToken
    <3>2. PICK valid \in BOOLEAN : verdict' = [about |-> token, valid |-> valid]
      BY <1>2, <3>1 DEF ShowPreview
    <3> QED  BY <3>2
  <2> QED  BY <1>2, <2>1, Zenon DEF ShowPreview
<1>3. CASE CloseJob \/ JobSaved
  BY <1>0, <1>3, Zenon DEF CloseJob, JobSaved, ResetJob
<1>4. CASE ShowBuilder \/ LeaveBuilder \/ AskPreview \/ SubmitJob \/ JobNotSaved
  BY <1>4, Zenon DEF ShowBuilder, LeaveBuilder, AskPreview, SubmitJob, JobNotSaved
<1>5. CASE UNCHANGED cronVars
  BY <1>5, Zenon DEF cronVars
<1> QED  BY <1>1, <1>2, <1>3, <1>4, <1>5 DEF CronNext

\* Only schedules that rows have, admins type or the builder makes are previewed
\* and saved.
THEOREM CronTyping == CronSpec => []CronTypeOK
<1>1. CronInit => ScheduleTypes
  BY CronAssumption DEF CronInit, ScheduleTypes, Schedules, NoVerdict, Nothing
<1>2. CronInit => SwitchTypes
  <2>1. NoVerdict.valid \in BOOLEAN
    BY DEF NoVerdict
  <2> QED  BY <2>1, Zenon DEF CronInit, SwitchTypes
<1>3. ScheduleTypes /\ SwitchTypes => CronTypeOK
  BY DEF ScheduleTypes, SwitchTypes, CronTypeOK
<1> QED  BY <1>1, <1>2, <1>3, SchedulesStep, SwitchesStep, PTL DEF CronSpec

-------------------------------------------------------------------------------
(* The graph of sessions, for any number of refreshes and of failures.      *)

Counts == 0..LeftOut

GraphTypes ==
    /\ nodeList \subseteq dbNodes /\ dbNodes \subseteq Nodes
    /\ cross \in [Nodes -> 0..HistoryLimit] /\ crossThen \in [Nodes -> 0..HistoryLimit]
    /\ started \in 0..MaxBatches /\ graphOf \in 0..started
    /\ DOMAIN batches \subseteq 1..started
    /\ \A b \in DOMAIN batches :
         DOMAIN batches[b] \subseteq dbNodes /\ batches[b] \in [DOMAIN batches[b] -> Counts]
    /\ DOMAIN adjacency \subseteq dbNodes /\ adjacency \in [DOMAIN adjacency -> Counts]

\* The answers in counts, a function of sessions, are for the list on the page, and
\* tell of messages there were since it was read.
OfThisList(counts) ==
    /\ DOMAIN counts = nodeList
    /\ \A s \in nodeList \ cleared :
         \/ counts[s] \in {Waiting, LeftOut}
         \/ crossThen[s] <= counts[s] /\ counts[s] <= cross[s]

NoneWaits(counts) == \A s \in DOMAIN counts : counts[s] # Waiting

\* The batch started last is of the list on the page, under way or in the graph.
LastIsOfList ==
    /\ NoneWaits(adjacency)
    /\ started \in DOMAIN batches => OfThisList(batches[started])
    /\ graphOf = started => OfThisList(adjacency)

\* Where none are deleted messages only come.
ThenIsPast == \A s \in Nodes \ cleared : crossThen[s] <= cross[s]

GraphInv == GraphTypes /\ ThenIsPast /\ LastIsOfList

\* What is counted is among the oldest messages.
OldestOnly ==
    /\ messages \in [Nodes -> 0..MaxMessages] /\ cross \in [Nodes -> 0..HistoryLimit]
    /\ \A s \in Nodes : cross[s] <= messages[s]

LEMMA GraphStarts == ASSUME GraphAssumption, GraphInit PROVE GraphInv
<1>1. GraphTypes
  BY DEF GraphAssumption, GraphInit, GraphTypes, Counts, LeftOut
<1>2. LastIsOfList
  BY DEF GraphInit, LastIsOfList, OfThisList, NoneWaits
<1>3. ThenIsPast
  BY DEF GraphInit, ThenIsPast
<1> QED  BY <1>1, <1>2, <1>3 DEF GraphInv

LEMMA GraphImplies == ASSUME GraphAssumption, GraphInv PROVE GraphIsCurrent
BY DEF GraphInv, GraphIsCurrent, LastIsOfList, OfThisList, NoneWaits

\* A new batch, for the list there is after the step.
LEMMA BatchStarted ==
  ASSUME GraphAssumption, GraphInv,
         nodeList' \subseteq dbNodes, crossThen' \in [Nodes -> 0..HistoryLimit],
         \A t \in Nodes \ cleared' : crossThen'[t] <= cross[t],
         StartBatch(nodeList'), nodeList' = {} => nodeList = {},
         UNCHANGED <<dbNodes, cross, adjacency, graphOf>>
  PROVE  GraphInv'
<1> USE DEF GraphAssumption, GraphInv
<1>0. ThenIsPast'
  BY DEF ThenIsPast
<1>1. CASE nodeList' = {}
  <2>1. UNCHANGED <<dbNodes, cross, adjacency, graphOf, batches, started, nodeList>>
    BY <1>1 DEF StartBatch
  <2>2. GraphTypes'
    BY <2>1 DEF GraphTypes, Counts
  <2>3. LastIsOfList'
    BY <2>1, <1>1 DEF LastIsOfList, OfThisList, NoneWaits
  <2> QED  BY <1>0, <2>2, <2>3
<1>2. CASE nodeList' # {}
  <2> DEFINE new == [s \in nodeList' |-> Waiting]
  <2>1. /\ started < MaxBatches /\ started' = started + 1
        /\ DOMAIN batches' = DOMAIN batches \cup {started'}
        /\ batches'[started'] = new
    BY <1>2 DEF StartBatch
  <2>2. \A b \in DOMAIN batches : b \in 1..started /\ b # started' /\ batches'[b] = batches[b]
    BY <1>2, <2>1 DEF StartBatch, GraphTypes
  <2>3. started \in 0..MaxBatches /\ started' \in 0..MaxBatches
    BY <2>1 DEF GraphTypes
  <2>4. new \in [nodeList' -> Counts] /\ DOMAIN new = nodeList' /\ nodeList' \subseteq Nodes
    BY DEF Counts, Waiting, LeftOut, GraphTypes
  <2>5. GraphTypes'
    <3>1. \A b \in DOMAIN batches' :
            DOMAIN batches'[b] \subseteq dbNodes' /\ batches'[b] \in [DOMAIN batches'[b] -> Counts]
      BY <2>1, <2>2, <2>4 DEF GraphTypes
    <3>2. DOMAIN batches' \subseteq 1..started' /\ graphOf' \in 0..started'
      BY <2>1, <2>2, <2>3 DEF GraphTypes
    <3> QED  BY <2>3, <3>1, <3>2 DEF GraphTypes, Counts, LeftOut
  <2>6. LastIsOfList'
    <3>2. NoneWaits(adjacency)'
      BY DEF LastIsOfList, NoneWaits
    <3>3. OfThisList(batches[started])'
      BY <2>1, <2>4 DEF OfThisList
    <3>4. graphOf' # started'
      BY <2>1, <2>3 DEF GraphTypes
    <3> QED  BY <2>1, <3>2, <3>3, <3>4 DEF LastIsOfList
  <2> QED  BY <1>0, <2>5, <2>6
<1> QED  BY <1>1, <1>2

\* An answer: what there is, which is at least what there was when the list was read.
LEMMA HistorySettled ==
  ASSUME GraphAssumption, GraphInv,
         NEW b \in DOMAIN batches, NEW s \in DOMAIN batches[b],
         NEW answer \in {cross[s], LeftOut}, SettleHistory(b, s, answer),
         UNCHANGED <<serverGraph, nodeList, crossThen, started>>
  PROVE  GraphInv'
<1> USE DEF GraphAssumption, GraphInv, serverGraph
<1> DEFINE got == [batches[b] EXCEPT ![s] = answer]
<1>1. s \in Nodes /\ answer \in Counts /\ batches[b] \in [DOMAIN batches[b] -> Counts]
  BY DEF GraphTypes, Counts, LeftOut
<1>2. /\ DOMAIN got = DOMAIN batches[b] /\ got \in [DOMAIN got -> Counts]
      /\ got[s] = answer
      /\ \A t \in DOMAIN batches[b] \ {s} : got[t] = batches[b][t]
  BY <1>1
<1>4. b = started => OfThisList(got)
  BY <1>1, <1>2 DEF LastIsOfList, OfThisList, GraphTypes, ThenIsPast
<1> HIDE DEF got
<1>0. ThenIsPast'
  BY DEF ThenIsPast
<1>5. CASE NoneWaits(got)
  <2>1. /\ DOMAIN batches' = DOMAIN batches \ {b}
        /\ \A c \in DOMAIN batches \ {b} : batches'[c] = batches[c]
        /\ adjacency' = got /\ graphOf' = b
    BY <1>5 DEF SettleHistory, NoneWaits, got
  <2>2. GraphTypes'
    BY <1>2, <2>1 DEF GraphTypes, Counts
  <2>3. LastIsOfList'
    BY <1>4, <1>5, <2>1 DEF LastIsOfList, NoneWaits, OfThisList
  <2> QED  BY <1>0, <2>2, <2>3
<1>6. CASE ~NoneWaits(got)
  <2>1. /\ batches' = [batches EXCEPT ![b] = got]
        /\ UNCHANGED <<adjacency, graphOf>>
    BY <1>6 DEF SettleHistory, NoneWaits, got
  <2>2. GraphTypes'
    BY <1>2, <2>1 DEF GraphTypes, Counts
  <2>3. LastIsOfList'
    BY <1>4, <2>1 DEF LastIsOfList, NoneWaits, OfThisList
  <2> QED  BY <1>0, <2>2, <2>3
<1> QED  BY <1>5, <1>6

LEMMA GraphStep ==
  ASSUME GraphAssumption, GraphInv, OldestOnly, [GraphNext]_graphVars
  PROVE  GraphInv'
<1> USE DEF GraphAssumption, serverGraph
<1>0. OldestOnly
  OBVIOUS
<1>1. ASSUME NEW s \in Nodes, SessionStarts(s) \/ MessageAdded(s) \/ MessagesCleared(s)
      PROVE  GraphInv'
  <2>1. /\ dbNodes \subseteq dbNodes' /\ dbNodes' \subseteq Nodes
        /\ cross' \in [Nodes -> 0..HistoryLimit] /\ cleared \subseteq cleared'
        /\ \A t \in Nodes \ cleared' : cross[t] <= cross'[t]
    <3>1. CASE SessionStarts(s)
      BY <3>1 DEF SessionStarts, GraphInv, GraphTypes
    <3>2. CASE MessageAdded(s)
      <4>1. UNCHANGED <<dbNodes, cleared>>
        BY <3>2 DEF MessageAdded
      <4>2. CASE cross' = cross
        BY <4>1, <4>2 DEF GraphInv, GraphTypes
      <4>3. CASE cross' # cross
        <5>1. cross' = [cross EXCEPT ![s] = cross[s] + 1] /\ cross[s] \in 0..HistoryLimit
          BY <3>2, <4>3 DEF MessageAdded, GraphInv, GraphTypes
        <5>2. cross[s] + 1 \in 0..HistoryLimit
          BY <1>0, <3>2, <4>3 DEF MessageAdded, OldestOnly
        <5> QED  BY <4>1, <5>1, <5>2 DEF GraphInv, GraphTypes
      <4> QED  BY <4>2, <4>3
    <3>3. CASE MessagesCleared(s)
      BY <3>3 DEF MessagesCleared, GraphInv, GraphTypes
    <3> QED  BY <1>1, <3>1, <3>2, <3>3
  <2>2. UNCHANGED <<nodeList, crossThen, batches, started, adjacency, graphOf>>
    BY <1>1 DEF SessionStarts, MessageAdded, MessagesCleared, clientGraph
  <2>3. GraphTypes'
    BY <2>1, <2>2 DEF GraphInv, GraphTypes, Counts
  <2>4. ThenIsPast'
    BY <2>1, <2>2, <2>3 DEF GraphInv, ThenIsPast, GraphTypes
  <2>5. LastIsOfList'
    <3>1. ASSUME NEW f, f \in [DOMAIN f -> Counts], OfThisList(f)
          PROVE  OfThisList(f)'
      <4>1. nodeList \subseteq Nodes /\ nodeList' = nodeList /\ crossThen' = crossThen
        BY <2>2 DEF GraphInv, GraphTypes
      <4>2. ASSUME NEW t \in nodeList \ cleared'
            PROVE  \/ f[t] \in {Waiting, LeftOut}
                   \/ crossThen[t] <= f[t] /\ f[t] <= cross'[t]
        <5>1. f[t] \in Nat
          BY <3>1, <4>2 DEF OfThisList, Counts, LeftOut
        <5>2. cross[t] \in Nat /\ cross'[t] \in Nat /\ cross[t] <= cross'[t] /\ t \notin cleared
          BY <2>1, <4>1, <4>2 DEF GraphInv, GraphTypes
        <5> QED  BY <3>1, <4>2, <5>1, <5>2 DEF OfThisList
      <4> QED  BY <3>1, <4>1, <4>2 DEF OfThisList
    <3>2. /\ started \in DOMAIN batches => OfThisList(batches[started])'
          /\ graphOf = started => OfThisList(adjacency)'
      <4>1. ASSUME started \in DOMAIN batches  PROVE OfThisList(batches[started])'
        BY <2>2, <3>1, <4>1 DEF GraphInv, GraphTypes, LastIsOfList, OfThisList
      <4>2. ASSUME graphOf = started  PROVE OfThisList(adjacency)'
        BY <2>2, <3>1, <4>2 DEF GraphInv, GraphTypes, LastIsOfList, OfThisList
      <4> QED  BY <4>1, <4>2
    <3> QED  BY <2>2, <3>2 DEF GraphInv, LastIsOfList, OfThisList, NoneWaits
  <2> QED  BY <2>3, <2>4, <2>5 DEF GraphInv
<1>2. CASE RefreshGraph
  <2>1. UNCHANGED <<serverGraph, nodeList, crossThen, adjacency, graphOf>> /\ StartBatch(nodeList)
    BY <1>2 DEF RefreshGraph
  <2>2. StartBatch(nodeList') /\ nodeList' \subseteq dbNodes
        /\ crossThen' \in [Nodes -> 0..HistoryLimit]
        /\ \A t \in Nodes \ cleared' : crossThen'[t] <= cross[t]
    BY <2>1 DEF GraphInv, GraphTypes, ThenIsPast
  <2> QED  BY <2>1, <2>2, BatchStarted
<1>3. CASE NodesAnswered
  <2>1. nodeList' = dbNodes /\ crossThen' = cross /\ StartBatch(nodeList')
        /\ UNCHANGED <<dbNodes, cross, adjacency, graphOf>>
    BY <1>3 DEF NodesAnswered, ListChanged
  <2>2. /\ crossThen' \in [Nodes -> 0..HistoryLimit]
        /\ \A t \in Nodes \ cleared' : crossThen'[t] <= cross[t]
        /\ nodeList' = {} => nodeList = {}
    BY <2>1 DEF GraphInv, GraphTypes
  <2> QED  BY <2>1, <2>2, BatchStarted
<1>4. ASSUME NEW b \in DOMAIN batches, NEW s \in DOMAIN batches[b], HistoryAnswered(b, s)
      PROVE  GraphInv'
  BY <1>4, HistorySettled DEF HistoryAnswered
<1>5. ASSUME NEW b \in DOMAIN batches, NEW s \in DOMAIN batches[b], HistoryFails(b, s)
      PROVE  GraphInv'
  BY <1>5, HistorySettled DEF HistoryFails
<1>6. CASE RetryNodes \/ NodesFail \/ UNCHANGED graphVars
  <2>1. UNCHANGED <<serverGraph, nodeList, crossThen, batches, started, adjacency, graphOf>>
    BY <1>6 DEF RetryNodes, NodesFail, graphVars, clientGraph
  <2> QED  BY <2>1 DEF GraphInv, GraphTypes, ThenIsPast, LastIsOfList, OfThisList, NoneWaits, Counts
<1> QED  BY <1>1, <1>2, <1>3, <1>4, <1>5, <1>6 DEF GraphNext

LEMMA OldestStep ==
  ASSUME GraphAssumption, OldestOnly, [GraphNext]_graphVars
  PROVE  OldestOnly'
<1> USE DEF OldestOnly, GraphAssumption
<1>1. ASSUME NEW s \in Nodes, SessionStarts(s)  PROVE OldestOnly'
  BY <1>1 DEF SessionStarts
<1>2. ASSUME NEW s \in Nodes, MessageAdded(s)  PROVE OldestOnly'
  <2>1. messages' = [messages EXCEPT ![s] = @ + 1] /\ messages[s] < MaxMessages
    BY <1>2 DEF MessageAdded
  <2>2. CASE cross' = cross
    BY <2>1, <2>2
  <2>3. CASE messages[s] < HistoryLimit /\ cross' = [cross EXCEPT ![s] = @ + 1]
    BY <2>1, <2>3
  <2> QED  BY <1>2, <2>2, <2>3 DEF MessageAdded
<1>3. ASSUME NEW s \in Nodes, MessagesCleared(s)  PROVE OldestOnly'
  BY <1>3 DEF MessagesCleared
<1>4. CASE \/ RefreshGraph \/ RetryNodes \/ NodesAnswered \/ NodesFail \/ UNCHANGED graphVars
           \/ \E b \in DOMAIN batches : \E s \in DOMAIN batches[b] : HistoryAnswered(b, s) \/ HistoryFails(b, s)
  <2>1. UNCHANGED <<messages, cross>>
    BY <1>4 DEF RefreshGraph, RetryNodes, NodesAnswered, NodesFail, HistoryAnswered, HistoryFails, graphVars,
                serverGraph
  <2> QED  BY <2>1
<1> QED  BY <1>1, <1>2, <1>3, <1>4 DEF GraphNext

LEMMA GraphKept == GraphSpec => [](GraphInv /\ OldestOnly)
<1>1. GraphInit => GraphInv /\ OldestOnly
  <2> SUFFICES ASSUME GraphInit PROVE GraphInv /\ OldestOnly
    OBVIOUS
  <2>1. GraphInv
    BY GraphAssumption, GraphStarts
  <2>2. OldestOnly
    BY GraphAssumption DEF GraphInit, OldestOnly, GraphAssumption
  <2> QED  BY <2>1, <2>2
<1>2. GraphInv /\ OldestOnly /\ [GraphNext]_graphVars => GraphInv' /\ OldestOnly'
  BY GraphAssumption, GraphStep, OldestStep
<1> QED  BY <1>1, <1>2, PTL DEF GraphSpec

\* Once the batches are answered, the last of them last, each cell counts what the
\* oldest messages of a session held when the list was read or later, unless they were
\* deleted since (SessionRelationshipGraph, fetchAllHistories).
THEOREM GraphStaysCurrent == GraphSpec => []GraphIsCurrent
<1>1. GraphInv => GraphIsCurrent
  BY GraphAssumption, GraphImplies
<1> QED  BY <1>1, GraphKept, PTL

\* The calls for the list, and what the page says of them.
GraphCalls ==
    /\ cleared \subseteq Nodes
    /\ listCalls \in Nat /\ graphFaults \in 0..MaxListFaults
    /\ listLoading \in BOOLEAN /\ listError \in BOOLEAN /\ histLoading \in BOOLEAN

LEMMA GraphCallsStep ==
  ASSUME GraphCalls, [GraphNext]_graphVars
  PROVE  GraphCalls'
<1> USE DEF GraphCalls, CallList
<1>1. listCalls' \in Nat /\ graphFaults' \in 0..MaxListFaults
  BY GraphAssumption
  DEF GraphAssumption, GraphNext, graphVars, clientGraph, SessionStarts, MessageAdded, MessagesCleared, RefreshGraph, RetryNodes, NodesAnswered,
      NodesFail, HistoryAnswered, HistoryFails
<1>2. ASSUME NEW list, StartBatch(list) PROVE histLoading' \in BOOLEAN
  BY <1>2, Zenon DEF StartBatch
<1>3. ASSUME NEW b, NEW s, NEW answer, SettleHistory(b, s, answer) PROVE histLoading' \in BOOLEAN
  BY <1>3, Zenon DEF SettleHistory
<1>4. /\ listLoading' \in BOOLEAN
      /\ listError' \in BOOLEAN
      /\ histLoading' \in BOOLEAN
  BY <1>2, <1>3, Zenon
  DEF GraphNext, graphVars, clientGraph, SessionStarts, MessageAdded, MessagesCleared, RefreshGraph, RetryNodes, NodesAnswered, NodesFail,
      HistoryAnswered, HistoryFails, ListChanged
<1>5. cleared' \subseteq Nodes
  BY DEF GraphNext, graphVars, serverGraph, SessionStarts, MessageAdded, MessagesCleared, RefreshGraph, RetryNodes,
         NodesAnswered, NodesFail, HistoryAnswered, HistoryFails
<1> QED  BY <1>1, <1>4, <1>5

\* The graph's counts are of sessions that there are, one for each cell.
THEOREM GraphTyping == GraphSpec => []GraphTypeOK
<1>1. GraphInit => GraphCalls
  <2>1. GraphInit => listCalls \in Nat /\ graphFaults \in 0..MaxListFaults
    BY GraphAssumption DEF GraphAssumption, GraphInit
  <2>2. GraphInit => cleared \subseteq Nodes
    BY DEF GraphInit
  <2> QED  BY <2>1, <2>2, Zenon DEF GraphInit, GraphCalls
<1>2. GraphInv /\ OldestOnly /\ GraphCalls => GraphTypeOK
  <2> SUFFICES ASSUME GraphInv, OldestOnly, GraphCalls PROVE GraphTypeOK
    OBVIOUS
  <2>1. ASSUME NEW b \in DOMAIN batches
        PROVE  batches[b] \in UNION {[d -> 0..LeftOut] : d \in SUBSET Nodes}
    <3>1. DOMAIN batches[b] \in SUBSET Nodes /\ batches[b] \in [DOMAIN batches[b] -> 0..LeftOut]
      BY DEF GraphInv, GraphTypes, Counts
    <3> QED  BY <3>1
  <2> QED  BY <2>1 DEF GraphInv, GraphTypes, OldestOnly, GraphCalls, GraphTypeOK
<1> QED  BY <1>1, <1>2, GraphKept, GraphCallsStep, PTL DEF GraphSpec

-------------------------------------------------------------------------------
(* The session drawer.                                                     *)

DrawerMessages == Sessions \X Nat \X (1..MaxLog)

PageRecords ==
    [stage : {"none", "asked", "read"}, session : Someone, from : Nat, append : BOOLEAN, upTo : 0..MaxLog,
     edition : Nat]
PostRecords ==
    [stage : {"none", "sent", "done"}, op : {"message", "archive"}, session : Someone, by : Someone]

DrawerTypes ==
    /\ sessionLog \in [Sessions -> 0..MaxLog] /\ edition \in [Sessions -> Nat]
    /\ drawerSession \in Someone /\ detail \in Someone /\ details \subseteq Sessions
    /\ hasMore \in BOOLEAN /\ pageLoading \in BOOLEAN /\ skewed \in BOOLEAN
    /\ offset \in Nat /\ clicks \in 0..MaxClicks /\ upsets \in 0..MaxUpsets
    /\ pages \in [Slots2 -> PageRecords]
    /\ desk \in {"none", "message", "compact"}
    /\ post \in PostRecords

\* Calls are made for a session, and only once one was opened.
CallsHaveSession ==
    /\ \A i \in PagesOut : pages[i].session \in Sessions
    /\ post.stage # "none" => post.by \in Sessions /\ post.session \in Sessions /\ drawerSession # NoSession
    /\ drawerSession = NoSession => detail = NoSession /\ details = {}
    /\ desk # "none" => detail # NoSession

\* The messages are of the session s and found at their places.
Placed(s, shown) == \A j \in DOMAIN shown : shown[j][1] = s /\ shown[j][3] = j

\* None is of an edition before the first one's, or after e.
Dated(shown, e) ==
    \A j \in DOMAIN shown : shown[1][2] <= shown[j][2] /\ shown[j][2] <= e

Shown ==
    /\ Placed(drawerSession, drawerLog) /\ Dated(drawerLog, edition[drawerSession])
    /\ StillThere => Len(drawerLog) <= sessionLog[drawerSession]

\* A page under way is the first one, or the one behind what is shown.
PageFits(p) ==
    /\ p.session = drawerSession /\ p.from = offset
    /\ IF p.append THEN Shown /\ Len(drawerLog) = offset ELSE offset = 0
    /\ p.stage = "read" =>
          /\ p.upTo <= offset + PageSize /\ p.edition <= edition[drawerSession]
          /\ p.edition = edition[drawerSession] => p.upTo <= sessionLog[drawerSession]
          /\ p.append => \A j \in DOMAIN drawerLog : drawerLog[j][2] <= p.edition

LogFits ==
    /\ Shown
    /\ hasMore => Len(drawerLog) = offset + PageSize

PagesFit == \/ PagesOut = {} /\ LogFits
            \/ \E i \in Slots2 : PagesOut = {i} /\ PageFits(pages[i])

\* What is under way, or shown, is of the opened session.
OpenedOnly ==
    /\ details \subseteq {drawerSession} /\ (detail = drawerSession \/ details # {})
    /\ post.stage # "none" => post.by = drawerSession

DrawerInv ==
    /\ DrawerTypes
    /\ drawerLog \in Seq(DrawerMessages)
    /\ CallsHaveSession
    /\ drawerSession # NoSession /\ ~skewed => OpenedOnly /\ PagesFit

\* A page is read, and asked for.
LEMMA PageRead ==
  ASSUME NEW q \in PageRecords, NEW n \in 0..MaxLog, NEW e \in Nat
  PROVE  [q EXCEPT !.stage = "read", !.edition = e, !.upTo = n] \in PageRecords
BY DEF PageRecords

LEMMA PageAsked ==
  ASSUME DrawerAssumption, NEW s \in Someone, NEW from \in Nat, NEW append \in BOOLEAN, FetchPage(s, from, append),
         pages \in [Slots2 -> PageRecords]
  PROVE  /\ pages' \in [Slots2 -> PageRecords] /\ pageLoading' \in BOOLEAN
         /\ \E i \in Slots2 \ PagesOut :
              /\ PagesOut' = PagesOut \cup {i}
              /\ pages'[i].session = s /\ pages'[i].from = from /\ pages'[i].append = append
              /\ pages'[i].stage = "asked"
              /\ \A j \in Slots2 \ {i} : pages'[j] = pages[j]
<1>1. PICK i \in Slots2 \ PagesOut :
         pages' = [pages EXCEPT ![i] = [stage |-> "asked", session |-> s, from |-> from,
                                        append |-> append, upTo |-> 0, edition |-> 0]]
  BY DEF FetchPage
<1>2. [stage |-> "asked", session |-> s, from |-> from, append |-> append, upTo |-> 0, edition |-> 0] \in PageRecords
  BY DEF PageRecords, DrawerAssumption
<1>3. pageLoading' \in BOOLEAN
  BY Zenon DEF FetchPage
<1>4. PagesOut' = PagesOut \cup {i}
  BY <1>1 DEF PagesOut
<1>5. pages'[i] = [stage |-> "asked", session |-> s, from |-> from, append |-> append, upTo |-> 0, edition |-> 0]
  BY <1>1
<1>6. /\ pages'[i].session = s /\ pages'[i].from = from /\ pages'[i].append = append
      /\ pages'[i].stage = "asked"
  BY <1>5
<1>7. \A j \in Slots2 \ {i} : pages'[j] = pages[j]
  BY <1>1
<1>8. pages' \in [Slots2 -> PageRecords]
  BY <1>1, <1>2
<1> QED  BY <1>3, <1>4, <1>6, <1>7, <1>8

LEMMA NothingAsked == NoPage \in PageRecords /\ NoPost \in PostRecords /\ NoPage.stage = "none" /\ NoPost.stage = "none"
<1>1. 0 \in 0..MaxLog
  BY DrawerAssumption DEF DrawerAssumption
<1> QED  BY <1>1 DEF NoPage, NoPost, PageRecords, PostRecords, Someone

\* What the drawer knows has its types.
LEMMA DrawerTyping ==
  ASSUME DrawerAssumption, DrawerTypes, CallsHaveSession, [DrawerNext]_drawerVars
  PROVE  DrawerTypes'
<1>1. ASSUME NEW i \in Slots2, ReadPage(i)  PROVE DrawerTypes'
  <2>1. pages[i].session \in Sessions
    BY <1>1 DEF ReadPage, CallsHaveSession, PagesOut
  <2>2. Smaller(sessionLog[pages[i].session], pages[i].from + PageSize) \in 0..MaxLog
    <3>1. sessionLog[pages[i].session] \in 0..MaxLog /\ pages[i].from \in Nat
      BY <2>1 DEF DrawerTypes, PageRecords
    <3> QED  BY <3>1 DEF Smaller, DrawerAssumption
  <2>4. edition[pages[i].session] \in Nat
    BY <2>1 DEF DrawerTypes
  <2>3. pages' \in [Slots2 -> PageRecords]
    BY <1>1, <2>2, <2>4, PageRead DEF ReadPage, DrawerTypes
  <2> QED  BY <1>1, <2>3 DEF ReadPage, DrawerTypes
<1>2. ASSUME NEW i \in Slots2, ShowPage(i)  PROVE DrawerTypes'
  <2>1. hasMore' \in BOOLEAN /\ pageLoading' \in BOOLEAN
    BY <1>2, Zenon DEF ShowPage
  <2> QED  BY <1>2, <2>1, NothingAsked DEF ShowPage, DrawerTypes
<1>3. ASSUME NEW i \in Slots2, PageFails(i)  PROVE DrawerTypes'
  <2>1. skewed' \in BOOLEAN /\ pageLoading' \in BOOLEAN
    BY <1>3, Zenon DEF PageFails
  <2> QED  BY <1>3, <2>1, NothingAsked DEF PageFails, Upset1, DrawerTypes, DrawerAssumption
<1>4. ASSUME NEW s \in Sessions, OpenSession(s)  PROVE DrawerTypes'
  <2>1. skewed' \in BOOLEAN
    BY <1>4, Zenon DEF OpenSession
  <2>2. pages' \in [Slots2 -> PageRecords] /\ pageLoading' \in BOOLEAN
    BY <1>4, PageAsked DEF OpenSession, DrawerTypes, Someone
  <2> QED  BY <1>4, <2>1, <2>2, NothingAsked DEF OpenSession, FetchDetail, Click, DrawerTypes, Someone, DrawerAssumption
<1>5. ASSUME NEW s \in Sessions, ShowDetail(s)  PROVE DrawerTypes'
  BY <1>5 DEF ShowDetail, DrawerTypes, CallsHaveSession, PageRecords, PostRecords, Someone, DrawerAssumption
<1>6. ASSUME NEW s \in Sessions, DetailFails(s)  PROVE DrawerTypes'
  BY <1>6 DEF DetailFails, Upset1, DrawerTypes, CallsHaveSession, PageRecords, PostRecords, Someone, DrawerAssumption
<1>7. ASSUME NEW s \in Sessions, SubmitMessage(s)  PROVE DrawerTypes'
  BY <1>7 DEF SubmitMessage, Post, Click, drawerView, DrawerTypes, CallsHaveSession, PageRecords, PostRecords, Someone, DrawerAssumption
<1>8. ASSUME NEW s \in Sessions, SessionMoves(s)  PROVE DrawerTypes'
  BY <1>8 DEF SessionMoves, drawerView, DrawerTypes, CallsHaveSession, PageRecords, PostRecords, Someone, DrawerAssumption
<1>17. ASSUME NEW s \in Sessions, SessionCleared(s)  PROVE DrawerTypes'
  BY <1>17 DEF SessionCleared, Upset1, drawerView, DrawerTypes, DrawerAssumption
<1>9. ASSUME NEW kind \in {"message", "compact"}, OpenDialog(kind)  PROVE DrawerTypes'
  BY <1>9 DEF OpenDialog, drawerView, DrawerTypes, CallsHaveSession, PageRecords, PostRecords, Someone, DrawerAssumption
<1>10. CASE LoadMore
  <2>1. skewed' \in BOOLEAN
    BY <1>10, Zenon DEF LoadMore
  <2>2. offset' \in Nat
    BY <1>10 DEF LoadMore, DrawerTypes, DrawerAssumption
  <2>3. pages' \in [Slots2 -> PageRecords] /\ pageLoading' \in BOOLEAN
    BY <1>10, <2>2, PageAsked DEF LoadMore, DrawerTypes
  <2> QED  BY <1>10, <2>1, <2>2, <2>3 DEF LoadMore, Click, DrawerTypes, DrawerAssumption
<1>11. CASE CloseDialog
  BY <1>11 DEF CloseDialog, drawerView, DrawerTypes, CallsHaveSession, PageRecords, PostRecords, Someone, DrawerAssumption
<1>12. CASE Compact
  BY <1>12 DEF Compact, Post, Click, drawerView, DrawerTypes, CallsHaveSession, PageRecords, PostRecords, Someone, DrawerAssumption
<1>13. CASE HandlePost
  BY <1>13 DEF HandlePost, drawerView, DrawerTypes, CallsHaveSession, PageRecords, PostRecords, Someone, DrawerAssumption
<1>14. CASE PostDone
  <2>1. skewed' \in BOOLEAN
    BY <1>14, Zenon DEF PostDone
  <2>2. post.by \in Sessions
    BY <1>14 DEF PostDone, CallsHaveSession
  <2>3. pages' \in [Slots2 -> PageRecords] /\ pageLoading' \in BOOLEAN
    BY <1>14, <2>2, PageAsked DEF PostDone, DrawerTypes, Someone
  <2> QED  BY <1>14, <2>1, <2>2, <2>3, NothingAsked DEF PostDone, FetchDetail, DrawerTypes
<1>15. CASE PostFails
  BY <1>15, NothingAsked DEF PostFails, Upset1, drawerView, DrawerTypes, DrawerAssumption
<1>16. CASE UNCHANGED drawerVars
  BY <1>16 DEF drawerVars, drawerView, DrawerTypes, CallsHaveSession, PageRecords, PostRecords, Someone, DrawerAssumption
<1> QED
  BY <1>17, <1>1, <1>2, <1>3, <1>4, <1>5, <1>6, <1>7, <1>8, <1>9, <1>10, <1>11, <1>12, <1>13, <1>14, <1>15, <1>16 DEF DrawerNext

LEMMA DrawerCalls ==
  ASSUME DrawerAssumption, DrawerTypes, CallsHaveSession, [DrawerNext]_drawerVars
  PROVE  CallsHaveSession'
<1>1. ASSUME NEW i \in Slots2, ReadPage(i)  PROVE CallsHaveSession'
  <2>1. /\ PagesOut' = PagesOut /\ \A j \in Slots2 : pages'[j].session = pages[j].session
        /\ UNCHANGED <<drawerSession, detail, details, desk, post>>
    BY <1>1 DEF ReadPage, DrawerTypes, PageRecords, PagesOut
  <2> QED  BY <2>1 DEF CallsHaveSession, PagesOut
<1>2. ASSUME NEW i \in Slots2, ShowPage(i)  PROVE CallsHaveSession'
  <2>1. /\ PagesOut' \subseteq PagesOut /\ \A j \in PagesOut' : pages'[j] = pages[j]
        /\ UNCHANGED <<drawerSession, detail, details, desk, post>>
    BY <1>2, NothingAsked DEF ShowPage, DrawerTypes, PagesOut
  <2> QED  BY <2>1 DEF CallsHaveSession
<1>3. ASSUME NEW i \in Slots2, PageFails(i)  PROVE CallsHaveSession'
  <2>1. /\ PagesOut' \subseteq PagesOut /\ \A j \in PagesOut' : pages'[j] = pages[j]
        /\ UNCHANGED <<drawerSession, detail, details, desk, post>>
    BY <1>3, NothingAsked DEF PageFails, DrawerTypes, PagesOut
  <2> QED  BY <2>1 DEF CallsHaveSession
<1>4. ASSUME NEW s \in Sessions, OpenSession(s)  PROVE CallsHaveSession'
  <2> PICK no \in BOOLEAN : no = FALSE
    OBVIOUS
  <2>0. FetchPage(s, 0, no) /\ s \in Someone /\ 0 \in Nat
        /\ pages \in [Slots2 -> PageRecords]
    BY <1>4 DEF OpenSession, Someone, DrawerTypes
  <2>1. PICK i \in Slots2 \ PagesOut : /\ PagesOut' = PagesOut \cup {i} /\ pages'[i].session = s
                                     /\ \A j \in Slots2 \ {i} : pages'[j] = pages[j]
    BY <2>0, PageAsked
  <2>2. \A j \in PagesOut' : pages'[j].session \in Sessions
    BY <2>1 DEF CallsHaveSession, PagesOut
  <2> QED  BY <1>4, <2>2 DEF OpenSession, CallsHaveSession, DrawerAssumption
<1>5. ASSUME NEW s \in Sessions, ShowDetail(s)  PROVE CallsHaveSession'
  BY <1>5 DEF ShowDetail, DrawerTypes, CallsHaveSession, PagesOut, PageRecords, PostRecords, Someone, NoPage, NoPost, DrawerAssumption
<1>6. ASSUME NEW s \in Sessions, DetailFails(s)  PROVE CallsHaveSession'
  BY <1>6 DEF DetailFails, Upset1, DrawerTypes, CallsHaveSession, PagesOut, PageRecords, PostRecords, Someone, NoPage, NoPost, DrawerAssumption
<1>7. ASSUME NEW s \in Sessions, SubmitMessage(s)  PROVE CallsHaveSession'
  BY <1>7 DEF SubmitMessage, Post, Click, drawerView, DrawerTypes, CallsHaveSession, PagesOut, PageRecords, PostRecords, Someone, NoPage, NoPost, DrawerAssumption
<1>8. ASSUME NEW s \in Sessions, SessionMoves(s)  PROVE CallsHaveSession'
  BY <1>8 DEF SessionMoves, drawerView, DrawerTypes, CallsHaveSession, PagesOut, PageRecords, PostRecords, Someone, NoPage, NoPost, DrawerAssumption
<1>17. ASSUME NEW s \in Sessions, SessionCleared(s)  PROVE CallsHaveSession'
  BY <1>17 DEF SessionCleared, Upset1, drawerView, DrawerTypes, CallsHaveSession, PagesOut, PageRecords, PostRecords, Someone, NoPage, NoPost, DrawerAssumption
<1>9. ASSUME NEW kind \in {"message", "compact"}, OpenDialog(kind)  PROVE CallsHaveSession'
  BY <1>9 DEF OpenDialog, drawerView, DrawerTypes, CallsHaveSession, PagesOut, PageRecords, PostRecords, Someone, NoPage, NoPost, DrawerAssumption
<1>10. CASE LoadMore
  <2>1. offset' \in Nat /\ drawerSession \in Sessions
    BY <1>10 DEF LoadMore, DrawerTypes, DrawerAssumption, Someone
  <2>1d. PICK yes \in BOOLEAN : yes = TRUE
    OBVIOUS
  <2>1a. PICK from \in Nat : from = offset'
    BY <2>1
  <2>1b. PICK s \in Someone : s = drawerSession
    BY DEF DrawerTypes
  <2>0. FetchPage(s, from, yes)
        /\ pages \in [Slots2 -> PageRecords]
    BY <1>10, <2>1a, <2>1b, <2>1d DEF LoadMore, DrawerTypes
  <2>1c. \E i \in Slots2 \ PagesOut :
          /\ PagesOut' = PagesOut \cup {i} /\ pages'[i].session = s /\ pages'[i].from = from
          /\ pages'[i].append = yes /\ pages'[i].stage = "asked"
          /\ \A j \in Slots2 \ {i} : pages'[j] = pages[j]
    BY <2>0, PageAsked
  <2>2. PICK i \in Slots2 \ PagesOut : /\ PagesOut' = PagesOut \cup {i} /\ pages'[i].session = drawerSession
                                     /\ \A j \in Slots2 \ {i} : pages'[j] = pages[j]
    BY <2>1b, <2>1c, <2>1d
  <2>3. \A j \in PagesOut' : pages'[j].session \in Sessions
    BY <2>1, <2>2 DEF CallsHaveSession, PagesOut
  <2> QED  BY <1>10, <2>3 DEF LoadMore, CallsHaveSession, DrawerAssumption
<1>11. CASE CloseDialog
  BY <1>11 DEF CloseDialog, drawerView, DrawerTypes, CallsHaveSession, PagesOut, PageRecords, PostRecords, Someone, NoPage, NoPost, DrawerAssumption
<1>12. CASE Compact
  <2>1. detail \in Sessions
    BY <1>12 DEF Compact, CallsHaveSession, DrawerTypes, Someone
  <2>2. drawerSession \in Sessions
    BY <2>1 DEF CallsHaveSession, DrawerTypes, Someone, DrawerAssumption
  <2> QED  BY <1>12, <2>1, <2>2 DEF Compact, Post, drawerView, CallsHaveSession, PagesOut
<1>13. CASE HandlePost
  BY <1>13 DEF HandlePost, drawerView, DrawerTypes, CallsHaveSession, PagesOut, PageRecords, PostRecords, Someone, NoPage, NoPost, DrawerAssumption
<1>14. CASE PostDone
  <2>1. post.by \in Sessions
    BY <1>14 DEF PostDone, CallsHaveSession
  <2> PICK no \in BOOLEAN : no = FALSE
    OBVIOUS
  <2>0. FetchPage(post.by, 0, no) /\ post.by \in Someone /\ 0 \in Nat
        /\ pages \in [Slots2 -> PageRecords]
    BY <1>14, <2>1 DEF PostDone, Someone, DrawerTypes
  <2>2. PICK i \in Slots2 \ PagesOut : /\ PagesOut' = PagesOut \cup {i} /\ pages'[i].session = post.by
                                     /\ \A j \in Slots2 \ {i} : pages'[j] = pages[j]
    BY <2>0, PageAsked
  <2>3. \A j \in PagesOut' : pages'[j].session \in Sessions
    BY <2>1, <2>2 DEF CallsHaveSession, PagesOut
  <2>4. /\ drawerSession' = drawerSession /\ detail' = detail /\ post'.stage = "none"
        /\ details' \subseteq Sessions /\ (desk' # "none" => desk # "none")
    BY <1>14, <2>1, NothingAsked DEF PostDone, FetchDetail, DrawerTypes
  <2>5. drawerSession # NoSession
    BY <1>14 DEF PostDone, CallsHaveSession
  <2> QED  BY <2>3, <2>4, <2>5 DEF CallsHaveSession
<1>15. CASE PostFails
  BY <1>15 DEF PostFails, Upset1, drawerView, DrawerTypes, CallsHaveSession, PagesOut, PageRecords, PostRecords, Someone, NoPage, NoPost, DrawerAssumption
<1>16. CASE UNCHANGED drawerVars
  BY <1>16 DEF drawerVars, drawerView, DrawerTypes, CallsHaveSession, PagesOut, PageRecords, PostRecords, Someone, NoPage, NoPost, DrawerAssumption
<1> QED
  BY <1>17, <1>1, <1>2, <1>3, <1>4, <1>5, <1>6, <1>7, <1>8, <1>9, <1>10, <1>11, <1>12, <1>13, <1>14, <1>15, <1>16 DEF DrawerNext

\* What is put behind a sequence.
LEMMA Behind ==
  ASSUME NEW M, NEW log \in Seq(M), NEW n \in Nat, NEW tail \in [1..n -> M]
  PROVE  /\ tail \in Seq(M) /\ Len(tail) = n
         /\ log \o tail \in Seq(M) /\ Len(log \o tail) = Len(log) + n
         /\ \A j \in 1..(Len(log) + n) :
              (log \o tail)[j] = IF j <= Len(log) THEN log[j] ELSE tail[j - Len(log)]
<1>1. tail \in Seq(M)
  BY SeqDef
<1>2. Len(tail) = n
  BY <1>1, LenProperties
<1> QED  BY <1>1, <1>2, ConcatProperties

\* The messages of a page: size ones of the session s, behind the first ones.
DrawerRows(s, e, from, size) == [j \in 1..size |-> <<s, e, from + j>>]

LEMMA DrawerRowsTyped ==
  ASSUME DrawerAssumption, NEW s \in Sessions, NEW e \in Nat, NEW from \in Nat, NEW size \in Nat,
         size = 0 \/ from + size <= MaxLog
  PROVE  /\ DrawerRows(s, e, from, size) \in [1..size -> DrawerMessages]
         /\ \A j \in 1..size : DrawerRows(s, e, from, size)[j] = <<s, e, from + j>>
<1>1. PICK loaded : loaded = DrawerRows(s, e, from, size)
  OBVIOUS
<1>2. \A j \in 1..size : from + j \in 1..MaxLog
  BY DEF DrawerAssumption
<1>3. DOMAIN loaded = 1..size /\ \A j \in 1..size : loaded[j] = <<s, e, from + j>> /\ loaded[j] \in DrawerMessages
  BY <1>1, <1>2 DEF DrawerRows, DrawerMessages
<1>4. loaded = [j \in 1..size |-> loaded[j]]
  BY <1>1, <1>3 DEF DrawerRows
<1>5. loaded \in [1..size -> DrawerMessages]
  BY <1>3, <1>4
<1> QED  BY <1>1, <1>3, <1>5

\* A page as it is shown: alone, or behind what was shown.
WellPlaced(s, e, from, size, log, loaded) ==
    /\ Len(loaded) = size /\ loaded \in Seq(DrawerMessages)
    /\ log \o loaded \in Seq(DrawerMessages) /\ Len(log \o loaded) = Len(log) + size
    /\ from = 0 => Placed(s, loaded)
    /\ Placed(s, log) /\ Len(log) = from => Placed(s, log \o loaded)
    /\ \A j \in 1..size : loaded[j][2] = e
    /\ \A j \in 1..(Len(log) + size) :
         (log \o loaded)[j][2] = IF j <= Len(log) THEN log[j][2] ELSE e

LEMMA PageShown ==
  ASSUME DrawerAssumption, NEW s \in Sessions, NEW e \in Nat, NEW from \in Nat, NEW size \in Nat,
         size = 0 \/ from + size <= MaxLog, NEW log \in Seq(DrawerMessages),
         NEW loaded \in [1..size -> DrawerMessages], loaded = DrawerRows(s, e, from, size)
  PROVE  WellPlaced(s, e, from, size, log, loaded)
<1>2. /\ loaded \in [1..size -> DrawerMessages]
      /\ \A j \in 1..size : loaded[j] = <<s, e, from + j>>
  BY DEF DrawerRows
<1>5. /\ loaded \in Seq(DrawerMessages) /\ Len(loaded) = size
      /\ log \o loaded \in Seq(DrawerMessages) /\ Len(log \o loaded) = Len(log) + size
      /\ \A j \in 1..(Len(log) + size) :
           (log \o loaded)[j] = IF j <= Len(log) THEN log[j] ELSE loaded[j - Len(log)]
  <2>1. loaded \in Seq(DrawerMessages)
    BY SeqDef
  <2>2. Len(loaded) = size
    BY <2>1, LenProperties
  <2> QED  BY <2>1, <2>2, ConcatProperties
<1>6. from = 0 => Placed(s, loaded)
  BY <1>2 DEF Placed
<1>8. Len(log) \in Nat
  OBVIOUS
<1>7. ASSUME Placed(s, log), Len(log) = from
      PROVE  Placed(s, log \o loaded)
  <2>1. DOMAIN (log \o loaded) = 1..(from + size) /\ DOMAIN log = 1..from
    BY <1>5, <1>7, LenProperties
  <2>2. ASSUME NEW j \in 1..(from + size)  PROVE (log \o loaded)[j][1] = s /\ (log \o loaded)[j][3] = j
    <3>0. j \in 1..(Len(log) + size) /\ j \in Nat
      BY <1>7, <2>2
    <3>1. CASE j <= from
      <4>1. (log \o loaded)[j] = log[j]
        BY <1>5, <1>7, <3>0, <3>1, Zenon
      <4>2. j \in 1..from
        BY <3>0, <3>1
      <4> QED  BY <1>7, <2>1, <4>1, <4>2 DEF Placed
    <3>2. CASE ~(j <= from)
      <4>1. j - from \in 1..size /\ from + (j - from) = j
        BY <3>0, <3>2
      <4>2. (log \o loaded)[j] = loaded[j - from]
        BY <1>5, <1>7, <3>0, <3>2, Zenon
      <4> QED  BY <1>2, <4>1, <4>2
    <3> QED  BY <3>1, <3>2
  <2> QED  BY <2>1, <2>2 DEF Placed
<1>9. ASSUME NEW j \in 1..(Len(log) + size)
      PROVE  (log \o loaded)[j][2] = IF j <= Len(log) THEN log[j][2] ELSE e
  <2>1. CASE j <= Len(log)
    BY <1>5, <1>9, <2>1, Zenon
  <2>2. CASE ~(j <= Len(log))
    <3>1. j - Len(log) \in 1..size
      BY <1>8, <1>9, <2>2
    <3>2. (log \o loaded)[j] = loaded[j - Len(log)]
      BY <1>5, <1>9, <2>2, Zenon
    <3>3. (log \o loaded)[j][2] = e
      BY <1>2, <3>1, <3>2
    <3> QED  BY <2>2, <3>3, Zenon
  <2> QED  BY <2>1, <2>2
<1>10. \A j \in 1..size : loaded[j][2] = e
  BY <1>2
<1> QED  BY <1>5, <1>6, <1>7, <1>9, <1>10 DEF WellPlaced

\* What fits does so as long as neither the log nor what is shown of it changes.
LEMMA DrawerFitsKept ==
  ASSUME PagesFit,
         UNCHANGED <<sessionLog, edition, drawerSession, drawerLog, hasMore, offset, pages>>
  PROVE  PagesFit'
BY DEF PagesFit, PagesOut, PageFits, LogFits, Shown, Placed, Dated, StillThere

\* Only a page that arrives changes what is shown.
LEMMA LogKept ==
  ASSUME DrawerNext, \A i \in Slots2 : ~ShowPage(i)
  PROVE  drawerLog' = drawerLog
BY DEF DrawerNext, ReadPage, PageFails, OpenSession, ShowDetail, DetailFails, SubmitMessage, SessionMoves, SessionCleared,
       OpenDialog, LoadMore, CloseDialog, Compact, HandlePost, PostDone, PostFails, drawerView

\* What arrives is a message of a session.
LEMMA LogTyped ==
  ASSUME DrawerAssumption, DrawerInv, [DrawerNext]_drawerVars
  PROVE  drawerLog' \in Seq(DrawerMessages)
<1>0. drawerLog \in Seq(DrawerMessages)
  BY DEF DrawerInv
<1>1. ASSUME NEW i \in Slots2, ShowPage(i)  PROVE drawerLog' \in Seq(DrawerMessages)
  <2>1. /\ pages[i].session \in Sessions /\ pages[i].from \in Nat /\ pages[i].upTo \in 0..MaxLog
        /\ pages[i].append \in BOOLEAN /\ pages[i].edition \in Nat
    BY <1>1 DEF ShowPage, DrawerInv, DrawerTypes, PageRecords, CallsHaveSession, PagesOut
  <2>2. PICK size : size = IF pages[i].upTo > pages[i].from THEN pages[i].upTo - pages[i].from ELSE 0
    OBVIOUS
  <2>3. PICK loaded : loaded = DrawerRows(pages[i].session, pages[i].edition, pages[i].from, size)
    OBVIOUS
  <2>4. drawerLog' = IF pages[i].append THEN drawerLog \o loaded ELSE loaded
    BY <1>1, <2>2, <2>3, Zenon DEF ShowPage, DrawerRows
  <2>5. size \in Nat /\ (size = 0 \/ pages[i].from + size <= MaxLog)
    BY <2>1, <2>2 DEF DrawerAssumption
  <2>6. loaded \in Seq(DrawerMessages) /\ drawerLog \o loaded \in Seq(DrawerMessages)
    <3>1. loaded \in [1..size -> DrawerMessages]
      BY <2>1, <2>3, <2>5, DrawerRowsTyped
    <3> QED  BY <1>0, <2>5, <3>1, Behind
  <2> QED  BY <2>4, <2>6
<1>2. CASE DrawerNext
  BY <1>0, <1>1, <1>2, LogKept
<1>3. CASE UNCHANGED drawerVars
  BY <1>0, <1>3 DEF drawerVars, drawerView
<1> QED  BY <1>2, <1>3

\* Whether messages are added to the log or all of them deleted: what fitted fits.
LEMMA LogMoves ==
  ASSUME DrawerTypes, PagesFit, drawerSession \in Sessions, UNCHANGED drawerView,
         drawerLog \in Seq(DrawerMessages), sessionLog'[drawerSession] \in Nat,
         \/ edition'[drawerSession] = edition[drawerSession] /\ sessionLog[drawerSession] <= sessionLog'[drawerSession]
         \/ edition'[drawerSession] = edition[drawerSession] + 1
  PROVE  PagesFit'
<1>0. /\ sessionLog[drawerSession] \in Nat /\ edition[drawerSession] \in Nat /\ offset \in Nat
      /\ Len(drawerLog) \in Nat
      /\ \A i \in Slots2 : pages[i].upTo \in Nat /\ pages[i].edition \in Nat
      /\ \A j \in DOMAIN drawerLog : drawerLog[j][2] \in Nat
  BY DEF DrawerTypes, PageRecords, DrawerMessages
<1>1. /\ drawerSession' = drawerSession /\ drawerLog' = drawerLog /\ hasMore' = hasMore /\ offset' = offset
      /\ pages' = pages
  BY DEF drawerView
<1>2. PagesOut' = PagesOut
  BY <1>1 DEF PagesOut
<1>3. Shown => Shown'
  <2> SUFFICES ASSUME Shown  PROVE Shown'
    OBVIOUS
  <2>1. edition[drawerSession] <= edition'[drawerSession] /\ edition'[drawerSession] \in Nat
    BY <1>0
  <2>2. Placed(drawerSession, drawerLog)' /\ Dated(drawerLog, edition[drawerSession])'
    BY <1>0, <1>1, <2>1 DEF Shown, Placed, Dated
  <2>3. ASSUME StillThere'  PROVE Len(drawerLog) <= sessionLog'[drawerSession]
    <3>1. CASE drawerLog = <<>>
      <4>1. Len(drawerLog) = 0
        BY <3>1
      <4> QED  BY <4>1
    <3>2. CASE drawerLog # <<>> /\ edition'[drawerSession] = edition[drawerSession]
      <4>1. StillThere
        BY <1>1, <2>3, <3>2 DEF StillThere
      <4> QED  BY <1>0, <3>2, <4>1 DEF Shown
    <3>3. CASE drawerLog # <<>> /\ edition'[drawerSession] = edition[drawerSession] + 1
      <4>1. 1 \in DOMAIN drawerLog
        BY <3>3
      <4>2. drawerLog[1][2] <= edition[drawerSession] /\ drawerLog[1][2] \in Nat
        BY <1>0, <4>1 DEF Shown, Dated
      <4>3. drawerLog[1][2] = edition'[drawerSession]
        BY <1>1, <2>3, <3>3 DEF StillThere
      <4> QED  BY <1>0, <3>3, <4>2, <4>3
    <3> QED  BY <3>1, <3>2, <3>3
  <2> QED  BY <1>1, <2>2, <2>3 DEF Shown
<1>4. ASSUME NEW i \in Slots2, PageFits(pages[i])  PROVE PageFits(pages[i])'
  BY <1>0, <1>1, <1>3, <1>4 DEF PageFits
<1>5. LogFits => LogFits'
  BY <1>1, <1>3 DEF LogFits
<1> QED  BY <1>2, <1>4, <1>5 DEF PagesFit

\* A page of the edition e goes behind what is shown.
LEMMA PageBehind ==
  ASSUME drawerLog \in Seq(DrawerMessages), Shown,
         NEW e \in Nat, NEW size \in Nat, NEW upTo \in Nat, NEW log \in Seq(DrawerMessages),
         edition[drawerSession] \in Nat, sessionLog[drawerSession] \in Nat,
         e <= edition[drawerSession], e = edition[drawerSession] => upTo <= sessionLog[drawerSession],
         size = 0 \/ Len(drawerLog) + size = upTo,
         \A j \in DOMAIN drawerLog : drawerLog[j][2] <= e,
         Placed(drawerSession, log), Len(log) = Len(drawerLog) + size,
         \A j \in 1..(Len(drawerLog) + size) :
           log[j][2] = IF j <= Len(drawerLog) THEN drawerLog[j][2] ELSE e,
         drawerLog' = log, UNCHANGED <<drawerSession, sessionLog, edition>>
  PROVE  Shown'
<1>1. /\ DOMAIN log = 1..(Len(drawerLog) + size) /\ DOMAIN drawerLog = 1..Len(drawerLog)
      /\ Len(drawerLog) \in Nat
  BY LenProperties
<1>2. \A j \in DOMAIN drawerLog : drawerLog[j][2] \in Nat
  BY DEF DrawerMessages
<1>3. \A j \in DOMAIN log : log[j][2] <= e /\ log[j][2] \in Nat
  BY <1>1, <1>2
<1>4. ASSUME NEW j \in DOMAIN log  PROVE log[1][2] <= log[j][2]
  <2>1. CASE Len(drawerLog) = 0
    <3>1. 1 \in DOMAIN log /\ ~(1 <= Len(drawerLog)) /\ ~(j <= Len(drawerLog))
      BY <1>1, <1>4, <2>1
    <3>2. log[1][2] = e /\ log[j][2] = e
      BY <1>1, <1>4, <3>1
    <3> QED  BY <3>2
  <2>2. CASE Len(drawerLog) # 0
    <3>1. 1 \in DOMAIN drawerLog /\ 1 \in DOMAIN log
      BY <1>1, <2>2
    <3>2. log[1][2] = drawerLog[1][2]
      BY <1>1, <3>1
    <3>3. CASE j <= Len(drawerLog)
      <4>1. j \in DOMAIN drawerLog /\ log[j][2] = drawerLog[j][2]
        BY <1>1, <1>4, <3>3
      <4> QED  BY <3>2, <4>1 DEF Shown, Dated
    <3>4. CASE ~(j <= Len(drawerLog))
      <4>1. log[j][2] = e
        BY <1>1, <1>4, <3>4
      <4> QED  BY <3>1, <3>2, <4>1
    <3> QED  BY <3>3, <3>4
  <2> QED  BY <2>1, <2>2
<1>5. Dated(log, edition[drawerSession])
  BY <1>3, <1>4 DEF Dated
<1>6. ASSUME log = <<>> \/ log[1][2] = edition[drawerSession]
      PROVE  Len(log) <= sessionLog[drawerSession]
  <2>1. CASE log = <<>>
    <3>1. Len(log) = 0
      BY <2>1
    <3> QED  BY <3>1
  <2>2. CASE log # <<>> /\ size # 0
    <3>1. 1 \in DOMAIN log
      BY <2>2
    <3>2. log[1][2] <= e /\ log[1][2] = edition[drawerSession]
      BY <1>3, <1>6, <2>2, <3>1
    <3>3. e = edition[drawerSession]
      BY <3>2
    <3> QED  BY <2>2, <3>3
  <2>3. CASE log # <<>> /\ size = 0
    <3>1. 1 \in DOMAIN log /\ 1 \in DOMAIN drawerLog
      BY <1>1, <2>3
    <3>2. drawerLog[1][2] = edition[drawerSession]
      BY <1>1, <1>6, <2>3, <3>1
    <3>3. Len(drawerLog) <= sessionLog[drawerSession]
      BY <3>2 DEF Shown, StillThere
    <3> QED  BY <2>3, <3>3
  <2> QED  BY <2>1, <2>2, <2>3
<1> QED  BY <1>5, <1>6 DEF Shown, StillThere, Placed, Dated

\* A first page is asked for.
LEMMA FirstPageFits ==
  ASSUME NEW i \in Slots2, PagesOut' = {i}, pages'[i].session = drawerSession', pages'[i].from = 0,
         pages'[i].append = FALSE, pages'[i].stage = "asked", offset' = 0
  PROVE  PagesFit'
BY DEF PagesFit, PageFits

LEMMA DrawerFits ==
  ASSUME DrawerAssumption, DrawerInv, DrawerNext, DrawerTypes', drawerSession' # NoSession, ~skewed'
  PROVE  OpenedOnly' /\ PagesFit'
<1>0. /\ DrawerTypes /\ CallsHaveSession /\ drawerLog \in Seq(DrawerMessages)
      /\ drawerSession # NoSession /\ ~skewed => OpenedOnly /\ PagesFit
  BY DEF DrawerInv
<1>1. ASSUME NEW i \in Slots2, ReadPage(i)  PROVE OpenedOnly' /\ PagesFit'
  <2>0. OpenedOnly /\ PagesFit /\ drawerSession \in Sessions
    BY <1>0, <1>1 DEF ReadPage, DrawerTypes, Someone
  <2>1. i \in PagesOut /\ PagesOut = {i} /\ PageFits(pages[i])
    BY <2>0, <1>1 DEF ReadPage, PagesFit, PagesOut
  <2>2. PICK n : n = Smaller(sessionLog[pages[i].session], pages[i].from + PageSize)
    OBVIOUS
  <2>2a. PICK e : e = edition[pages[i].session]
    OBVIOUS
  <2>3. pages' = [pages EXCEPT ![i] = [@ EXCEPT !.stage = "read", !.edition = e, !.upTo = n]]
    BY <1>1, <2>2, <2>2a DEF ReadPage
  <2>4. /\ pages'[i].stage = "read" /\ pages'[i].upTo = n /\ pages'[i].session = pages[i].session
        /\ pages'[i].edition = e
        /\ pages'[i].from = pages[i].from /\ pages'[i].append = pages[i].append
        /\ \A j \in Slots2 \ {i} : pages'[j] = pages[j]
    BY <1>0, <2>3 DEF DrawerTypes, PageRecords
  <2>5. PagesOut' = {i}
    BY <2>1, <2>4 DEF PagesOut
  <2>6. /\ UNCHANGED <<drawerSession, drawerLog, offset, sessionLog, edition, details, detail, post>>
    BY <1>1 DEF ReadPage
  <2>7. n <= sessionLog[drawerSession] /\ n <= offset + PageSize /\ e = edition[drawerSession]
    <3>1. sessionLog[drawerSession] \in Nat /\ offset \in Nat
      BY <1>0, <2>0 DEF DrawerTypes
    <3>2. pages[i].session = drawerSession /\ pages[i].from = offset
      BY <2>1 DEF PageFits
    <3> QED  BY <2>2, <2>2a, <3>1, <3>2 DEF Smaller, DrawerAssumption
  <2>7a. edition[drawerSession] \in Nat
    BY <1>0, <2>0 DEF DrawerTypes
  <2>7b. Shown => Shown'
    BY <2>6 DEF Shown, Placed, Dated, StillThere
  <2>7c. pages[i].append => \A j \in DOMAIN drawerLog : drawerLog[j][2] <= e
    BY <2>1, <2>7 DEF PageFits, Shown, Dated
  <2>8. PageFits(pages[i])'
    BY <2>1, <2>4, <2>6, <2>7, <2>7a, <2>7b, <2>7c DEF PageFits
  <2> QED  BY <2>0, <2>5, <2>6, <2>8 DEF PagesFit, OpenedOnly
<1>2. ASSUME NEW i \in Slots2, ShowPage(i)  PROVE OpenedOnly' /\ PagesFit'
  <2>0. OpenedOnly /\ PagesFit /\ drawerSession \in Sessions
    BY <1>0, <1>2 DEF ShowPage, DrawerTypes, Someone
  <2>1. i \in PagesOut /\ PagesOut = {i} /\ PageFits(pages[i])
    BY <2>0, <1>2 DEF ShowPage, PagesFit, PagesOut
  <2>2. /\ UNCHANGED <<drawerSession, offset, sessionLog, edition, details, detail, post>>
        /\ pages' = [pages EXCEPT ![i] = NoPage]
    BY <1>2 DEF ShowPage
  <2>3. PagesOut' = {}
    BY <1>0, <2>1, <2>2, NothingAsked DEF PagesOut, DrawerTypes
  <2>4. /\ pages[i].session = drawerSession /\ pages[i].from = offset /\ pages[i].upTo \in 0..MaxLog
        /\ pages[i].append \in BOOLEAN /\ offset \in Nat /\ sessionLog[drawerSession] \in 0..MaxLog
        /\ pages[i].upTo <= offset + PageSize
        /\ pages[i].edition \in Nat /\ edition[drawerSession] \in Nat
        /\ pages[i].edition <= edition[drawerSession]
        /\ pages[i].edition = edition[drawerSession] => pages[i].upTo <= sessionLog[drawerSession]
        /\ pages[i].append => /\ Shown /\ Len(drawerLog) = offset
                              /\ \A j \in DOMAIN drawerLog : drawerLog[j][2] <= pages[i].edition
        /\ ~pages[i].append => offset = 0
    <3>1. pages[i].stage = "read"
      BY <1>2 DEF ShowPage
    <3> QED  BY <1>0, <2>0, <2>1, <3>1 DEF PageFits, DrawerTypes, PageRecords
  <2>5. PICK size : size = IF pages[i].upTo > offset THEN pages[i].upTo - offset ELSE 0
    OBVIOUS
  <2>5a. PICK e : e = pages[i].edition
    OBVIOUS
  <2>6. PICK loaded : loaded = DrawerRows(drawerSession, e, offset, size)
    OBVIOUS
  <2>7. drawerLog' = (IF pages[i].append THEN drawerLog \o loaded ELSE loaded) /\ hasMore' = (size = PageSize)
    BY <1>2, <2>4, <2>5, <2>5a, <2>6, Zenon DEF ShowPage, DrawerRows
  <2>8. /\ size \in Nat /\ (size = 0 \/ offset + size = pages[i].upTo) /\ offset + size <= offset + PageSize
        /\ Len(loaded) = size /\ Len(drawerLog \o loaded) = Len(drawerLog) + size
        /\ loaded \in Seq(DrawerMessages) /\ drawerLog \o loaded \in Seq(DrawerMessages)
        /\ offset = 0 => Placed(drawerSession, loaded)
        /\ Placed(drawerSession, drawerLog) /\ Len(drawerLog) = offset =>
              Placed(drawerSession, drawerLog \o loaded)
        /\ \A j \in 1..size : loaded[j][2] = e
        /\ \A j \in 1..(Len(drawerLog) + size) :
             (drawerLog \o loaded)[j][2] = IF j <= Len(drawerLog) THEN drawerLog[j][2] ELSE e
    <3>0. size \in Nat /\ (size = 0 \/ offset + size = pages[i].upTo) /\ offset + size <= offset + PageSize
      BY <2>4, <2>5 DEF DrawerAssumption
    <3>1. size \in Nat /\ (size = 0 \/ offset + size <= MaxLog)
      BY <2>4, <3>0 DEF DrawerAssumption
    <3>2. PICK log \in Seq(DrawerMessages) : log = drawerLog
      BY <1>0
    <3>3. PICK s \in Sessions : s = drawerSession
      BY <2>0
    <3>4. PICK from \in Nat : from = offset
      BY <2>4
    <3>6. e \in Nat /\ loaded = DrawerRows(s, e, from, size)
      BY <2>4, <2>5a, <2>6, <3>3, <3>4
    <3>5. WellPlaced(s, e, from, size, log, loaded)
      <4>0. s \in Sessions /\ e \in Nat /\ from \in Nat /\ size \in Nat /\ (size = 0 \/ from + size <= MaxLog)
        BY <3>1, <3>4, <3>6
      <4>1. DrawerRows(s, e, from, size) \in [1..size -> DrawerMessages]
        BY <4>0, DrawerRowsTyped
      <4>2. loaded \in [1..size -> DrawerMessages]
        BY <3>6, <4>1
      <4>3. log \in Seq(DrawerMessages)
        OBVIOUS
      <4> HIDE <3>1, <3>4
      <4> QED  BY <3>6, <4>0, <4>2, <4>3, PageShown
    <3> QED  BY <3>0, <3>2, <3>3, <3>4, <3>5 DEF WellPlaced
  <2>9. Shown' /\ Len(drawerLog') = offset + size
    <3>1. CASE pages[i].append
      <4>1. /\ Shown /\ Len(drawerLog) = offset
            /\ \A j \in DOMAIN drawerLog : drawerLog[j][2] <= e
        BY <2>4, <2>5a, <3>1
      <4>2. PICK log : log = drawerLog \o loaded
        OBVIOUS
      <4>3. drawerLog' = log /\ log \in Seq(DrawerMessages) /\ Len(log) = offset + size
        BY <2>7, <2>8, <3>1, <4>1, <4>2
      <4>4. PICK upTo \in Nat : upTo = pages[i].upTo
        BY <2>4
      <4>5. /\ e \in Nat /\ edition[drawerSession] \in Nat /\ sessionLog[drawerSession] \in Nat
            /\ e <= edition[drawerSession]
            /\ e = edition[drawerSession] => upTo <= sessionLog[drawerSession]
            /\ size = 0 \/ Len(drawerLog) + size = upTo
        BY <2>4, <2>5a, <2>8, <4>1, <4>4
      <4>6. /\ Placed(drawerSession, log) /\ Len(log) = Len(drawerLog) + size
            /\ \A j \in 1..(Len(drawerLog) + size) :
                 log[j][2] = IF j <= Len(drawerLog) THEN drawerLog[j][2] ELSE e
        BY <2>8, <4>1, <4>2 DEF Shown
      <4>7. size \in Nat
        BY <2>8
      <4>8. Shown'
        BY <1>0, <2>2, <4>1, <4>3, <4>5, <4>6, <4>7, PageBehind
      <4> QED  BY <4>3, <4>8
    <3>2. CASE ~pages[i].append
      <4>1. offset = 0 /\ drawerLog' = loaded
        BY <2>4, <2>7, <3>2
      <4>2. Placed(drawerSession, loaded) /\ DOMAIN loaded = 1..size
        BY <2>8, <4>1, LenProperties
      <4>3. Dated(loaded, edition[drawerSession])
        BY <2>4, <2>5a, <2>8, <4>2 DEF Dated
      <4>4. ASSUME StillThere'  PROVE size <= sessionLog[drawerSession]
        <5>1. CASE size = 0
          BY <2>4, <5>1
        <5>2. CASE size # 0
          <6>1. loaded[1][2] = e /\ loaded # <<>>
            BY <2>8, <5>2
          <6>2. e = edition[drawerSession]
            BY <2>2, <4>1, <4>4, <6>1 DEF StillThere
          <6> QED  BY <2>4, <2>5a, <2>8, <4>1, <5>2, <6>2
        <5> QED  BY <5>1, <5>2
      <4> QED  BY <2>2, <2>4, <2>8, <4>1, <4>2, <4>3, <4>4 DEF Shown, Placed, Dated
    <3> QED  BY <3>1, <3>2
  <2>11. LogFits'
    BY <2>2, <2>4, <2>7, <2>8, <2>9 DEF LogFits
  <2> QED  BY <2>0, <2>2, <2>3, <2>11 DEF PagesFit, OpenedOnly
<1>3. ASSUME NEW i \in Slots2, PageFails(i)  PROVE OpenedOnly' /\ PagesFit'
  BY <1>3 DEF PageFails
<1>4. ASSUME NEW s \in Sessions, OpenSession(s)  PROVE OpenedOnly' /\ PagesFit'
  <2> PICK no \in BOOLEAN : no = FALSE
    OBVIOUS
  <2>0. FetchPage(s, 0, no) /\ s \in Someone /\ DrawerQuiet /\ 0 \in Nat
        /\ pages \in [Slots2 -> PageRecords]
    BY <1>0, <1>4 DEF OpenSession, Someone, DrawerTypes
  <2>1. PICK i \in Slots2 \ PagesOut :
          /\ PagesOut' = PagesOut \cup {i} /\ pages'[i].session = s /\ pages'[i].from = 0
          /\ pages'[i].append = FALSE /\ pages'[i].stage = "asked"
    BY <2>0, PageAsked
  <2>2. drawerSession' = s /\ offset' = 0 /\ details' = details \cup {s} /\ post' = post
    BY <1>4 DEF OpenSession, FetchDetail
  <2>3. PagesOut' = {i} /\ details = {} /\ post.stage = "none"
    BY <2>0, <2>1 DEF DrawerQuiet
  <2>4. PagesFit'
    BY <2>1, <2>2, <2>3, FirstPageFits
  <2> QED  BY <2>2, <2>3, <2>4 DEF OpenedOnly
<1>5. ASSUME NEW s \in Sessions, ShowDetail(s)  PROVE OpenedOnly' /\ PagesFit'
  <2>0. OpenedOnly /\ PagesFit
    BY <1>0, <1>5 DEF ShowDetail
  <2>1. /\ UNCHANGED <<sessionLog, edition, drawerSession, drawerLog, hasMore, offset, pages, post>>
        /\ detail' = s /\ details' = details \ {s} /\ s \in details
    BY <1>5 DEF ShowDetail
  <2>2. PagesFit'
    BY <2>0, <2>1, DrawerFitsKept
  <2> QED  BY <2>0, <2>1, <2>2 DEF OpenedOnly
<1>6. ASSUME NEW s \in Sessions, DetailFails(s)  PROVE OpenedOnly' /\ PagesFit'
  BY <1>6 DEF DetailFails
<1>7. ASSUME \/ \E s \in Sessions : SubmitMessage(s)
             \/ \E kind \in {"message", "compact"} : OpenDialog(kind)
             \/ CloseDialog \/ Compact \/ PostFails
      PROVE  OpenedOnly' /\ PagesFit'
  <2>1. /\ UNCHANGED <<sessionLog, edition, drawerView>> /\ (skewed' = FALSE => skewed = FALSE)
        /\ post' = post \/ post'.stage = "none" \/ post'.by = drawerSession
    BY <1>7, NothingAsked DEF SubmitMessage, OpenDialog, CloseDialog, Compact, PostFails, Post
  <2>2. /\ UNCHANGED <<sessionLog, edition, drawerSession, drawerLog, hasMore, offset, pages, detail, details>>
    BY <2>1 DEF drawerView
  <2>3. OpenedOnly /\ PagesFit
    BY <1>0, <2>1, <2>2
  <2>4. PagesFit'
    BY <2>2, <2>3, DrawerFitsKept
  <2> QED  BY <2>1, <2>2, <2>3, <2>4 DEF OpenedOnly
<1>8. ASSUME \/ \E s \in Sessions : SessionMoves(s) \/ SessionCleared(s)
             \/ HandlePost
      PROVE  OpenedOnly' /\ PagesFit'
  <2>1. /\ UNCHANGED <<drawerView, skewed>>
        /\ (post' = post \/ (post' = [post EXCEPT !.stage = "done"] /\ post.stage = "sent"))
    BY <1>8 DEF SessionMoves, SessionCleared, HandlePost
  <2>2. /\ UNCHANGED <<drawerSession, drawerLog, hasMore, offset, pages, detail, details>>
    BY <2>1 DEF drawerView
  <2>3. OpenedOnly /\ PagesFit /\ drawerSession \in Sessions
    BY <1>0, <2>1, <2>2 DEF DrawerTypes, Someone
  <2>4. /\ sessionLog'[drawerSession] \in Nat
        /\ \/ edition'[drawerSession] = edition[drawerSession] /\ sessionLog[drawerSession] <= sessionLog'[drawerSession]
           \/ edition'[drawerSession] = edition[drawerSession] + 1
    <3>1. \A x \in Sessions : sessionLog[x] \in Nat /\ sessionLog'[x] \in Nat
      BY <1>0 DEF DrawerTypes
    <3>2. \/ UNCHANGED <<sessionLog, edition>>
          \/ \E s \in Sessions : sessionLog' = [sessionLog EXCEPT ![s] = @ + 1] /\ edition' = edition
          \/ \E s \in Sessions : /\ sessionLog' = [sessionLog EXCEPT ![s] = 0]
                                 /\ edition' = [edition EXCEPT ![s] = @ + 1]
      <4>1. post.stage # "none" => post.session \in Sessions
        BY <1>0 DEF CallsHaveSession
      <4>2. CASE \E s \in Sessions : SessionMoves(s) \/ SessionCleared(s)
        BY <4>2 DEF SessionMoves, SessionCleared
      <4>3. CASE HandlePost
        BY <4>1, <4>3 DEF HandlePost
      <4> QED  BY <1>8, <4>2, <4>3
    <3>3. /\ sessionLog \in [Sessions -> 0..MaxLog] /\ edition \in [Sessions -> Nat]
          /\ edition[drawerSession] \in Nat
      BY <1>0, <2>3 DEF DrawerTypes
    <3>4. CASE UNCHANGED <<sessionLog, edition>>
      BY <2>3, <3>1, <3>4
    <3>5. ASSUME NEW s \in Sessions, sessionLog' = [sessionLog EXCEPT ![s] = @ + 1], edition' = edition
          PROVE  sessionLog[drawerSession] <= sessionLog'[drawerSession]
      BY <2>3, <3>1, <3>3, <3>5
    <3>6. ASSUME NEW s \in Sessions, sessionLog' = [sessionLog EXCEPT ![s] = 0],
                 edition' = [edition EXCEPT ![s] = @ + 1]
          PROVE  \/ edition'[drawerSession] = edition[drawerSession] + 1
                 \/ /\ edition'[drawerSession] = edition[drawerSession]
                    /\ sessionLog'[drawerSession] = sessionLog[drawerSession]
      BY <2>3, <3>3, <3>6
    <3> QED  BY <2>3, <3>1, <3>2, <3>3, <3>4, <3>5, <3>6
  <2>5. PagesFit'
    BY <1>0, <2>1, <2>3, <2>4, LogMoves
  <2>6. post'.stage # "none" => post'.by = drawerSession
    BY <1>0, <2>1, <2>3 DEF OpenedOnly, DrawerTypes, PostRecords
  <2> QED  BY <2>2, <2>3, <2>5, <2>6 DEF OpenedOnly
<1>9. CASE LoadMore
  <2>0. OpenedOnly /\ PagesFit /\ drawerSession \in Sessions /\ PagesOut = {}
    BY <1>0, <1>9 DEF LoadMore, DrawerTypes, Someone
  <2>1. /\ UNCHANGED <<sessionLog, edition, drawerSession, drawerLog, detail, details, post>>
        /\ offset' = offset + PageSize /\ hasMore
    BY <1>9 DEF LoadMore
  <2>2. LogFits
    BY <2>0 DEF PagesFit
  <2>3. offset' \in Nat
    BY <1>0, <2>1 DEF DrawerTypes, DrawerAssumption
  <2>1d. PICK yes \in BOOLEAN : yes = TRUE
    OBVIOUS
  <2>3a. PICK from \in Nat : from = offset'
    BY <2>3
  <2>3b. PICK s \in Someone : s = drawerSession
    BY <1>0 DEF DrawerTypes
  <2>4. FetchPage(s, from, yes)
        /\ pages \in [Slots2 -> PageRecords]
    BY <1>0, <1>9, <2>0, <2>3a, <2>3b, <2>1d DEF LoadMore, Someone, DrawerTypes
  <2>4a. \E i \in Slots2 \ PagesOut :
          /\ PagesOut' = PagesOut \cup {i} /\ pages'[i].session = s /\ pages'[i].from = from
          /\ pages'[i].append = yes /\ pages'[i].stage = "asked"
          /\ \A j \in Slots2 \ {i} : pages'[j] = pages[j]
    BY <2>4, PageAsked
  <2>5. PICK i \in Slots2 \ PagesOut :
          /\ PagesOut' = PagesOut \cup {i} /\ pages'[i].session = drawerSession /\ pages'[i].from = offset'
          /\ pages'[i].append = TRUE /\ pages'[i].stage = "asked"
    BY <2>3a, <2>3b, <2>4a, <2>1d
  <2>6. PageFits(pages[i])'
    <3>1. Shown'
      BY <2>1, <2>2 DEF LogFits, Shown, Placed, Dated, StillThere
    <3> QED  BY <2>1, <2>2, <2>5, <3>1 DEF PageFits, LogFits
  <2>7. PagesOut' = {i}
    BY <2>0, <2>5
  <2> QED  BY <2>0, <2>1, <2>6, <2>7 DEF PagesFit, OpenedOnly
<1>10. CASE PostDone
  <2>0. drawerSession' = drawerSession /\ ~skewed /\ offset = 0 /\ PagesOut = {}
    <3>1. offset \in Nat
      BY <1>0 DEF DrawerTypes
    <3>2. drawerSession' = drawerSession /\ ~(skewed \/ offset > 0 \/ PagesOut # {})
      BY <1>10, Zenon DEF PostDone
    <3> QED  BY <3>1, <3>2
  <2>1. OpenedOnly /\ post.by = drawerSession /\ post.by \in Sessions
    BY <1>0, <1>10, <2>0 DEF PostDone, OpenedOnly, CallsHaveSession
  <2> PICK no \in BOOLEAN : no = FALSE
    OBVIOUS
  <2>2. FetchPage(post.by, 0, no) /\ post.by \in Someone /\ 0 \in Nat
        /\ pages \in [Slots2 -> PageRecords]
    BY <1>0, <1>10, <2>1 DEF PostDone, Someone, DrawerTypes
  <2>3. PICK i \in Slots2 \ PagesOut :
          /\ PagesOut' = PagesOut \cup {i} /\ pages'[i].session = post.by /\ pages'[i].from = 0
          /\ pages'[i].append = FALSE /\ pages'[i].stage = "asked"
    BY <2>2, PageAsked
  <2>4. offset' = 0 /\ detail' = detail /\ details' = details \cup {drawerSession} /\ post'.stage = "none"
    BY <1>10, <2>0, <2>1, NothingAsked DEF PostDone, FetchDetail
  <2>5. PagesFit'
    BY <2>0, <2>1, <2>3, <2>4, FirstPageFits
  <2> QED  BY <2>0, <2>1, <2>4, <2>5 DEF OpenedOnly
<1> QED
  BY <1>1, <1>2, <1>3, <1>4, <1>5, <1>6, <1>7, <1>8, <1>9, <1>10 DEF DrawerNext

\* Initially nothing is opened.
LEMMA DrawerStarts ==
  ASSUME DrawerAssumption, DrawerInit
  PROVE  DrawerInv
<1>1. sessionLog \in [Sessions -> 0..MaxLog] /\ edition \in [Sessions -> Nat]
  BY DEF DrawerInit, DrawerAssumption
<1>2. pages \in [Slots2 -> PageRecords] /\ post \in PostRecords /\ PagesOut = {} /\ post.stage = "none"
  BY NothingAsked DEF DrawerInit, PagesOut
<1>3. drawerLog \in Seq(DrawerMessages)
  <2>1. <<>> \in Seq(DrawerMessages)
    OBVIOUS
  <2> QED  BY <2>1 DEF DrawerInit
<1>4. DrawerTypes
  <2>1. hasMore \in BOOLEAN /\ pageLoading \in BOOLEAN /\ skewed \in BOOLEAN
    BY Zenon DEF DrawerInit
  <2> QED  BY <1>1, <1>2, <2>1 DEF DrawerInit, DrawerTypes, Someone, DrawerAssumption
<1> QED  BY <1>2, <1>3, <1>4 DEF DrawerInit, DrawerInv, CallsHaveSession

LEMMA DrawerStep ==
  ASSUME DrawerAssumption, DrawerInv, [DrawerNext]_drawerVars
  PROVE  DrawerInv'
<1>1. DrawerTypes' /\ CallsHaveSession' /\ drawerLog' \in Seq(DrawerMessages)
  BY DrawerTyping, DrawerCalls, LogTyped DEF DrawerInv
<1>2. ASSUME drawerSession' # NoSession, ~skewed'  PROVE OpenedOnly' /\ PagesFit'
  <2>1. CASE DrawerNext
    BY <1>1, <1>2, <2>1, DrawerFits
  <2>2. CASE UNCHANGED drawerVars
    <3>1. /\ UNCHANGED <<sessionLog, edition, drawerSession, drawerLog, hasMore, offset, pages, detail,
                         details, post, skewed>>
      BY <2>2 DEF drawerVars, drawerView
    <3>2. OpenedOnly /\ PagesFit
      BY <1>2, <3>1 DEF DrawerInv
    <3> QED  BY <3>1, <3>2, DrawerFitsKept DEF OpenedOnly
  <2> QED  BY <2>1, <2>2
<1> QED  BY <1>1, <1>2 DEF DrawerInv

\* Nothing is under way: the detail is there, and the pages fit.
LEMMA DrawerImplies == DrawerInv => DrawerShowsLog
<1> SUFFICES ASSUME DrawerInv, drawerSession # NoSession, DrawerQuiet, ~skewed
             PROVE  DrawerShowsLog
  BY DEF DrawerShowsLog
<1>1. OpenedOnly /\ LogFits /\ detail = drawerSession
  BY DEF DrawerInv, DrawerQuiet, OpenedOnly, PagesFit
<1>2. ASSUME StillThere, NEW j \in DOMAIN drawerLog
      PROVE  drawerLog[j][2] = edition[drawerSession]
  <2>1. /\ drawerLog \in Seq(DrawerMessages) /\ drawerLog # <<>>
        /\ drawerSession \in Sessions /\ edition[drawerSession] \in Nat
    BY <1>2 DEF DrawerInv, DrawerTypes, Someone
  <2>2. drawerLog[j][2] \in Nat /\ drawerLog[1][2] = edition[drawerSession]
    BY <1>2, <2>1 DEF StillThere, DrawerMessages
  <2>3. drawerLog[1][2] <= drawerLog[j][2] /\ drawerLog[j][2] <= edition[drawerSession]
    BY <1>1, <1>2 DEF LogFits, Shown, Dated
  <2> QED  BY <2>1, <2>2, <2>3
<1> QED  BY <1>1, <1>2 DEF DrawerShowsLog, LogFits, Shown, Placed

LEMMA DrawerKept == DrawerSpec => []DrawerInv
<1>1. DrawerInit => DrawerInv
  BY DrawerAssumption, DrawerStarts
<1>2. DrawerInv /\ [DrawerNext]_drawerVars => DrawerInv'
  BY DrawerAssumption, DrawerStep
<1> QED  BY <1>1, <1>2, PTL DEF DrawerSpec

\* For every set of sessions, page size and number of clicks: once its calls are
\* answered, and unless one failed or overtook another, the drawer shows the
\* opened session's messages at the places its pages found them, and the beginning
\* of its log when nothing was deleted since the first page.
THEOREM DrawerShowsSession == DrawerSpec => []DrawerShowsLog
BY DrawerKept, DrawerImplies, PTL

\* The drawer shows messages of sessions, and calls for sessions only.
THEOREM DrawerTypesKept == DrawerSpec => []DrawerTypeOK
<1>1. DrawerInv => DrawerTypeOK
  BY DEF DrawerInv, DrawerTypes, PageRecords, PostRecords, DrawerMessages, DrawerTypeOK
<1> QED  BY <1>1, DrawerKept, PTL

-------------------------------------------------------------------------------
(* The tables.                                                             *)

Switches == {"absent", "off", "on"}
Listings == [Rows -> Switches]
AskRecords == [stage : {"none", "asked", "read"}, onlyEnabled : BOOLEAN, rows : Listings]
Operations == {"none", "create", "wizard", "delete", "update", "toggle", "execute", "archive"}
WriteRecords ==
    [op : Operations, row : Rows \cup {NoRow}, value : Switches, onlyEnabled : BOOLEAN,
     by : {"dialog", "table", "nobody"}, stage : {"none", "sent", "done", "refused"}]
FormRecords ==
    [kind : {"closed", "dialog", "wizard", "confirm"}, row : Rows \cup {NoRow}, value : Switches,
     base : Switches, token : BOOLEAN, step : 0..LastStep]

TablesTypes ==
    /\ table \in Tables \cup {"checking", "left"} /\ tabsShown \in BOOLEAN
    /\ rows \in Listings /\ listed \in Listings
    /\ onlyEnabled \in BOOLEAN /\ listFailed \in BOOLEAN /\ behind \in BOOLEAN
    /\ asks \in [Asks -> AskRecords]
    /\ form \in FormRecords /\ savingId \in Rows \cup {NoRow}
    /\ writes \in [Writes -> WriteRecords]
    /\ written \in Nat /\ troubles \in Nat /\ written + troubles <= MaxWrites

\* Writes are sent one by one, and nothing is before the user is known.
WritesInOrder ==
    /\ \A i \in WritingNow : i <= written
    /\ table \notin Tables => AskedNow = {} /\ WritingNow = {} /\ behind /\ form.kind = "closed" /\ ~listFailed
                               /\ listed = NoRows
    /\ tabsShown \/ table \in GatewayTabs

\* The table of users is fetched once, before anybody can be edited.
UsersAlone ==
    table = "users" =>
      /\ ~onlyEnabled /\ ~listFailed
      /\ form.kind = "closed" \/ (form.kind = "dialog" /\ form.row \in Rows)
      /\ \A i \in WritingNow : writes[i].op = "update" /\ writes[i].row \in Rows /\ writes[i].by # "nobody"
      /\ AskedNow \subseteq {1}
      /\ AskedNow # {} => listed = NoRows /\ form.kind = "closed" /\ WritingNow = {}

\* The writes of users do not meet.
UsersApart ==
    table = "users" /\ ~behind =>
      \A i \in WritingNow :
        /\ writes[i].stage = "done" => rows[writes[i].row] = writes[i].value
        /\ \A j \in WritingNow \ {i} : writes[j].row # writes[i].row

\* A write was handled whose answer makes the hook fetch.
Owed == \E i \in WritingNow : writes[i].stage = "done" /\ ~NoFetch(writes[i])

\* The list is what the server has, or will be: by a fetch, or a user's save.
Lists(list) ==
    \/ Owed
    \/ \A r \in Rows : \/ list[r] = rows[r]
                       \/ table = "users" /\ \E i \in WritingNow : writes[i].stage = "done" /\ writes[i].row = r

FetchFits(i) ==
    /\ AskedNow = {i} /\ asks[i].onlyEnabled = onlyEnabled
    /\ asks[i].stage = "read" /\ ~onlyEnabled => Lists(asks[i].rows)

ListFits == \/ AskedNow = {} /\ ~onlyEnabled /\ Lists(listed)
            \/ \E i \in Asks : FetchFits(i)

TablesInv ==
    /\ TablesTypes
    /\ WritesInOrder
    /\ UsersAlone
    /\ UsersApart
    /\ ~behind => ListFits

\* The records a table begins with, and what becomes of them.
LEMMA TableRecords ==
  /\ NoRows \in Listings /\ NoAsk \in AskRecords /\ NoAsk.stage = "none"
  /\ NoWrite \in WriteRecords /\ NoWrite.stage = "none"
  /\ NoForm \in FormRecords /\ NoForm.kind = "closed"
<1>1. NoRows \in Listings
  BY DEF NoRows, Listings, Switches
<1>2. NoAsk \in AskRecords /\ NoAsk.stage = "none"
  BY <1>1 DEF NoAsk, AskRecords
<1>3. NoWrite \in WriteRecords /\ NoWrite.stage = "none"
  BY DEF NoWrite, WriteRecords, Operations, Switches
<1>4. NoForm \in FormRecords /\ NoForm.kind = "closed"
  BY DEF NoForm, FormRecords, Switches, LastStep
<1> QED  BY <1>1, <1>2, <1>3, <1>4

LEMMA AskBegun ==
  ASSUME NEW filter \in BOOLEAN, NEW q, q = [NoAsk EXCEPT !.stage = "asked", !.onlyEnabled = filter]
  PROVE  q \in AskRecords /\ q.stage = "asked" /\ q.onlyEnabled = filter
BY TableRecords DEF NoAsk, AskRecords

LEMMA WriteStaged ==
  ASSUME NEW w \in WriteRecords, NEW s \in {"none", "sent", "done", "refused"}, NEW v, v = [w EXCEPT !.stage = s]
  PROVE  v \in WriteRecords /\ v.stage = s /\ v.op = w.op /\ v.row = w.row /\ v.value = w.value /\ v.by = w.by
         /\ v.onlyEnabled = w.onlyEnabled
BY DEF WriteRecords

LEMMA WriteHandedOver ==
  ASSUME NEW w \in WriteRecords, NEW b \in {"dialog", "table", "nobody"}, NEW v, v = [w EXCEPT !.by = b]
  PROVE  v \in WriteRecords /\ v.stage = w.stage /\ v.op = w.op /\ v.row = w.row /\ v.value = w.value /\ v.by = b
BY DEF WriteRecords

\* The calls a fetch adds.
LEMMA StartedCalls ==
  ASSUME TablesAssumption, NEW a \in [Asks -> AskRecords], NEW n \in Nat, NEW filter \in BOOLEAN
  PROVE  /\ Started(a, n, filter) \in [Asks -> AskRecords]
         /\ n = 0 => Started(a, n, filter) = a
         /\ n = 1 /\ (\A i \in Asks : a[i].stage = "none") =>
              \E i \in Asks : /\ {j \in Asks : Started(a, n, filter)[j].stage # "none"} = {i}
                              /\ Started(a, n, filter)[i].stage = "asked"
                              /\ Started(a, n, filter)[i].onlyEnabled = filter
<1> DEFINE free == {i \in Asks : a[i].stage = "none"}
           before(i) == {j \in free : j < i}
<1>1. PICK new : new = [NoAsk EXCEPT !.stage = "asked", !.onlyEnabled = filter]
  OBVIOUS
<1>2. new \in AskRecords /\ new.stage = "asked" /\ new.onlyEnabled = filter
  BY <1>1, AskBegun
<1>3. PICK out : out = Started(a, n, filter)
  OBVIOUS
<1>4. out = [i \in Asks |-> IF i \in free /\ Cardinality(before(i)) < n THEN new ELSE a[i]]
  BY <1>1, <1>3 DEF Started
<1>5. \A i \in Asks : Cardinality(before(i)) \in Nat
  <2>1. MaxAsks \in Int /\ IsFiniteSet(Asks)
    BY FS_Interval DEF Asks, TablesAssumption
  <2>2. \A i \in Asks : before(i) \in SUBSET Asks
    OBVIOUS
  <2> QED  BY <2>1, <2>2, FS_Subset, FS_CardinalityType
<1>6. out \in [Asks -> AskRecords]
  BY <1>2, <1>4
<1>7. ASSUME n = 0  PROVE out = a
  <2>1. \A i \in Asks : ~(Cardinality(before(i)) < n)
    BY <1>5, <1>7
  <2>2. \A i \in Asks : out[i] = a[i]
    BY <1>4, <2>1
  <2> QED  BY <1>6, <2>2
<1>8. ASSUME n = 1, \A i \in Asks : a[i].stage = "none"
      PROVE  \E i \in Asks : /\ {j \in Asks : out[j].stage # "none"} = {i}
                             /\ out[i].stage = "asked" /\ out[i].onlyEnabled = filter
  <2>1. 1 \in Asks /\ \A i \in Asks : i \in Nat /\ i >= 1
    BY DEF Asks, TablesAssumption
  <2>2. free = Asks
    BY <1>8
  <2>3. before(1) = {} /\ Cardinality(before(1)) = 0
    BY <2>1, FS_EmptySet
  <2>4. ASSUME NEW i \in Asks, i # 1  PROVE Cardinality(before(i)) # 0
    <3>1. 1 \in before(i)
      BY <2>1, <2>2, <2>4
    <3>2. IsFiniteSet(before(i))
      <4>1. MaxAsks \in Int /\ IsFiniteSet(Asks)
        BY FS_Interval DEF Asks, TablesAssumption
      <4>2. before(i) \in SUBSET Asks
        OBVIOUS
      <4> QED  BY <4>1, <4>2, FS_Subset
    <3> QED  BY <3>1, <3>2, FS_EmptySet
  <2>5. out[1] = new
    BY <1>4, <1>8, <2>1, <2>2, <2>3
  <2>6. \A i \in Asks \ {1} : out[i] = a[i]
    BY <1>4, <1>5, <1>8, <2>4
  <2> QED  BY <1>2, <1>8, <2>1, <2>5, <2>6
<1> HIDE DEF free, before
<1> QED  BY <1>3, <1>6, <1>7, <1>8

\* What a table that is mounted asks for.
LEMMA FirstCall ==
  ASSUME TablesAssumption
  PROVE  /\ FirstAsk \in [Asks -> AskRecords] /\ {i \in Asks : FirstAsk[i].stage # "none"} = {1}
<1>1. PICK new : new = [NoAsk EXCEPT !.stage = "asked"]
  OBVIOUS
<1>2. new \in AskRecords /\ new.stage = "asked"
  BY <1>1, TableRecords DEF NoAsk, AskRecords
<1>3. 1 \in Asks
  BY DEF Asks, TablesAssumption
<1>4. \A i \in Asks : FirstAsk[i] = IF i = 1 THEN new ELSE NoAsk
  BY <1>1 DEF FirstAsk
<1>5. FirstAsk \in [Asks -> AskRecords]
  BY <1>1, <1>2, TableRecords DEF FirstAsk
<1> QED  BY <1>2, <1>3, <1>4, <1>5, TableRecords

\* Only the dialog changes.
LEMMA FormStep ==
  ASSUME TablesInv, FormChanges, form' \in FormRecords,
         table \notin Tables => form'.kind = "closed",
         table = "users" => form'.kind = "closed" \/ (form'.kind = "dialog" /\ form'.row \in Rows /\ AskedNow = {})
  PROVE  TablesInv'
<1>1. /\ UNCHANGED <<table, tabsShown, rows, listed, onlyEnabled, asks, listFailed, savingId, writes, written,
                     troubles, behind>>
  BY DEF FormChanges, openTab, tableList
<1>2. AskedNow' = AskedNow /\ WritingNow' = WritingNow
  BY <1>1 DEF AskedNow, WritingNow
<1>3. TablesTypes'
  BY <1>1 DEF TablesInv, TablesTypes
<1>4. WritesInOrder'
  BY <1>1, <1>2 DEF TablesInv, WritesInOrder
<1>5. UsersAlone'
  BY <1>1, <1>2 DEF TablesInv, UsersAlone
<1>6. UsersApart'
  BY <1>1, <1>2 DEF TablesInv, UsersApart
<1>7. Owed' = Owed
  BY <1>1, <1>2 DEF Owed, NoFetch
<1>8. ListFits => ListFits'
  BY <1>1, <1>2, <1>7 DEF ListFits, FetchFits, Lists
<1> QED  BY <1>1, <1>3, <1>4, <1>5, <1>6, <1>8 DEF TablesInv

\* A list that was right is right after a step that leaves the hook alone.
LEMMA FitsKept ==
  ASSUME UNCHANGED <<listed, onlyEnabled, asks>>, ListFits, \A l : Lists(l) => Lists(l)'
  PROVE  ListFits'
<1>1. AskedNow' = AskedNow
  BY DEF AskedNow
<1>2. Lists(listed) => Lists(listed)'
  OBVIOUS
<1> QED  BY <1>1, <1>2 DEF ListFits, FetchFits

\* A write is sent.
LEMMA SendStep ==
  ASSUME TablesAssumption, TablesInv, NEW op \in Operations, NEW r \in Rows \cup {NoRow}, NEW v \in Switches,
         SendWrite(op, r, v), UNCHANGED <<openTab, rows, tableList, form, troubles>>,
         savingId' \in Rows \cup {NoRow}, behind' \in BOOLEAN, behind => behind', table \in Tables,
         table = "users" => /\ op = "update" /\ r \in Rows /\ AskedNow = {}
                            /\ ~behind' => \A i \in WritingNow : writes[i].row # r
  PROVE  TablesInv'
<1>1. /\ UNCHANGED <<table, tabsShown, rows, listed, onlyEnabled, asks, listFailed, form, troubles>>
  BY DEF openTab, tableList
<1>2. PICK k \in Writes : k = written + 1 /\ written' = k /\ k \in Nat /\ written \in Nat
                         /\ written' + troubles <= MaxWrites
  BY DEF SendWrite, TablesInv, TablesTypes, TablesAssumption, Writes
<1>3. PICK w : w = [op |-> op, row |-> r, value |-> v, onlyEnabled |-> onlyEnabled, by |-> "dialog",
                   stage |-> "sent"]
  OBVIOUS
<1>4. w \in WriteRecords /\ w.op = op /\ w.row = r /\ w.value = v /\ w.by = "dialog" /\ w.stage = "sent"
  BY <1>3 DEF TablesInv, TablesTypes, WriteRecords
<1>5. writes' = [writes EXCEPT ![k] = w]
  BY <1>2, <1>3 DEF SendWrite
<1>6. writes \in [Writes -> WriteRecords]
  BY DEF TablesInv, TablesTypes
<1>7. k \notin WritingNow
  BY <1>2 DEF TablesInv, WritesInOrder
<1>8. /\ AskedNow' = AskedNow /\ WritingNow' = WritingNow \cup {k} /\ writes'[k] = w
      /\ \A i \in WritingNow : writes'[i] = writes[i]
  BY <1>1, <1>4, <1>5, <1>6, <1>7 DEF AskedNow, WritingNow
<1>9. TablesTypes'
  BY <1>1, <1>2, <1>4, <1>5 DEF TablesInv, TablesTypes
<1>10. WritesInOrder'
  <2>1. \A i \in WritingNow' : i <= written'
    <3>1. \A i \in WritingNow : i <= written /\ i \in Nat
      BY DEF TablesInv, WritesInOrder, WritingNow, Writes
    <3> QED  BY <1>2, <1>8, <3>1
  <2> QED  BY <1>1, <2>1 DEF TablesInv, WritesInOrder
<1>11. UsersAlone'
  BY <1>1, <1>4, <1>8 DEF TablesInv, UsersAlone
<1>12. UsersApart'
  BY <1>1, <1>4, <1>8 DEF TablesInv, UsersApart
<1>13. ASSUME NEW l, Lists(l)  PROVE Lists(l)'
  <2>1. Owed => Owed'
    BY <1>1, <1>8 DEF Owed, NoFetch
  <2>2. \A x \in Rows : (\E i \in WritingNow : writes[i].stage = "done" /\ writes[i].row = x)
                         => (\E i \in WritingNow' : writes'[i].stage = "done" /\ writes'[i].row = x)
    BY <1>8
  <2> QED  BY <1>1, <1>13, <2>1, <2>2 DEF Lists
<1>14. ListFits => ListFits'
  BY <1>1, <1>13, FitsKept
<1> QED  BY <1>9, <1>10, <1>11, <1>12, <1>14 DEF TablesInv

\* A write is handled.
LEMMA HandleStep ==
  ASSUME TablesAssumption, TablesInv, NEW i \in Writes, HandleWrite(i)
  PROVE  TablesInv'
<1>1. /\ UNCHANGED <<table, tabsShown, listed, onlyEnabled, asks, listFailed, form, savingId, written, troubles>>
  BY DEF HandleWrite, openTab, tableList
<1>2. /\ TablesTypes /\ WritesInOrder /\ UsersAlone /\ UsersApart /\ (~behind => ListFits)
      /\ writes \in [Writes -> WriteRecords] /\ rows \in Listings
  BY DEF TablesInv, TablesTypes
<1>3. PICK stage \in {"done", "refused"} :
        /\ IF stage = "done" THEN Handled(writes[i]) ELSE Refused(writes[i])
        /\ writes' = [writes EXCEPT ![i] = IF @.by = "nobody" THEN NoWrite ELSE [@ EXCEPT !.stage = stage]]
  BY DEF HandleWrite
<1>4. PICK w \in WriteRecords : w = writes[i]
  BY <1>2
<1>5. w.stage = "sent" /\ i \in WritingNow
  BY <1>4 DEF HandleWrite, WritingNow
<1>6. PICK v \in WriteRecords : v = [w EXCEPT !.stage = stage]
  BY WriteStaged
<1>7. v.stage = stage /\ v.op = w.op /\ v.row = w.row /\ v.value = w.value /\ v.by = w.by
  BY <1>6, WriteStaged
<1>8. writes' = [writes EXCEPT ![i] = IF w.by = "nobody" THEN NoWrite ELSE v]
  BY <1>3, <1>4, <1>6
<1>9. /\ AskedNow' = AskedNow /\ \A j \in Writes \ {i} : writes'[j] = writes[j]
      /\ WritingNow' = IF w.by = "nobody" THEN WritingNow \ {i} ELSE WritingNow
      /\ w.by # "nobody" => writes'[i] = v
  BY <1>1, <1>2, <1>5, <1>7, <1>8, TableRecords DEF AskedNow, WritingNow
<1>10. behind' \in BOOLEAN
  BY Zenon DEF HandleWrite
<1>11. ~behind' => ~behind /\ w.by # "nobody" /\ ~(table = "channels" /\ NoFetch(w))
  BY <1>4 DEF HandleWrite
<1>12. rows' \in Listings
  <2>1. stage = "refused" => rows' = rows
    BY <1>3 DEF Refused
  <2>2. stage = "done" => rows' = rows \/ (\E r : rows' = [rows EXCEPT ![r] = w.value])
                                      \/ (\E r : rows' = [rows EXCEPT ![r] = "absent"])
    BY <1>3, <1>4 DEF Handled
  <2>3. w.value \in Switches /\ "absent" \in Switches
    BY DEF WriteRecords, Switches
  <2> QED  BY <1>2, <2>1, <2>2, <2>3 DEF Listings
<1>13. TablesTypes'
  BY <1>1, <1>2, <1>8, <1>10, <1>12, TableRecords DEF TablesTypes
<1>14. WritesInOrder'
  <2>1. table \in Tables
    BY <1>2, <1>5 DEF WritesInOrder
  <2> QED  BY <1>1, <1>2, <1>9, <2>1 DEF WritesInOrder
<1>15. UsersAlone'
  <2>1. ASSUME table = "users", NEW j \in WritingNow'
        PROVE  j \in WritingNow /\ writes'[j].op = writes[j].op /\ writes'[j].row = writes[j].row
                                /\ writes'[j].by = writes[j].by
    BY <1>4, <1>7, <1>9 DEF WritingNow
  <2>2. table = "users" => AskedNow = {}
    BY <1>2, <1>5 DEF UsersAlone
  <2> QED  BY <1>1, <1>2, <1>9, <2>1, <2>2 DEF UsersAlone
<1>16. ASSUME ~behind'
       PROVE  /\ WritingNow' = WritingNow /\ writes'[i] = v /\ ~behind
              /\ \A j \in Writes \ {i} : writes'[j] = writes[j]
  BY <1>9, <1>11, <1>16
<1>17. ASSUME table = "users"
       PROVE  /\ w.op = "update" /\ w.row \in Rows
              /\ stage = "done" => rows' = [rows EXCEPT ![w.row] = w.value]
              /\ stage = "refused" => rows' = rows
  <2>1. w.op = "update" /\ w.row \in Rows
    BY <1>2, <1>4, <1>5, <1>17 DEF UsersAlone
  <2> QED  BY <1>3, <1>4, <2>1 DEF Handled, Refused
<1>18. UsersApart'
  <2> SUFFICES ASSUME table = "users", ~behind', NEW j \in WritingNow'
               PROVE  /\ writes'[j].stage = "done" => rows'[writes'[j].row] = writes'[j].value
                      /\ \A k \in WritingNow' \ {j} : writes'[k].row # writes'[j].row
    BY <1>1 DEF UsersApart
  <2>1. \A k \in WritingNow : /\ writes'[k].row = writes[k].row /\ writes'[k].value = writes[k].value
                              /\ k # i => writes'[k] = writes[k]
    BY <1>4, <1>7, <1>16 DEF WritingNow
  <2>2. WritingNow' = WritingNow /\ ~behind
    BY <1>16
  <2>3. \A k \in WritingNow \ {j} : writes[k].row # writes[j].row
    BY <1>1, <1>2, <2>2 DEF UsersApart
  <2>4. \A k \in WritingNow' \ {j} : writes'[k].row # writes'[j].row
    BY <2>1, <2>2, <2>3
  <2>5. writes'[j].stage = "done" => rows'[writes'[j].row] = writes'[j].value
    <3>1. CASE j = i
      <4>1. writes'[i] = v
        BY <1>16
      <4>2. v.stage = "done" => rows'[v.row] = v.value
        BY <1>2, <1>7, <1>17 DEF Listings
      <4> QED  BY <3>1, <4>1, <4>2
    <3>2. CASE j # i
      <4>1. writes[j].row # w.row /\ writes[j].row \in Rows
        BY <1>1, <1>2, <1>4, <1>5, <2>2, <2>3, <3>2 DEF UsersAlone
      <4>2. rows'[writes[j].row] = rows[writes[j].row]
        BY <1>2, <1>17, <4>1 DEF Listings
      <4>3. writes[j].stage = "done" => rows[writes[j].row] = writes[j].value
        BY <1>1, <1>2, <2>2 DEF UsersApart
      <4> QED  BY <2>1, <2>2, <3>2, <4>2, <4>3
    <3> QED  BY <3>1, <3>2
  <2> QED  BY <2>4, <2>5
<1>19. ASSUME ~behind', NEW l, Lists(l)  PROVE Lists(l)'
  <2>1. Owed => Owed'
    <3>1. ASSUME NEW j \in WritingNow, writes[j].stage = "done", ~NoFetch(writes[j])  PROVE Owed'
      <4>1. j # i /\ j \in Writes
        BY <1>4, <1>5, <3>1 DEF WritingNow
      <4>2. writes'[j] = writes[j] /\ j \in WritingNow'
        BY <1>16, <1>19, <4>1
      <4> QED  BY <1>1, <3>1, <4>2 DEF Owed, NoFetch
    <3> QED  BY <3>1 DEF Owed
  <2>2. CASE stage = "done" /\ table # "users"
    <3>1. ~NoFetch(w)
      BY <1>11, <1>19, <2>2 DEF NoFetch
    <3>2. v.stage = "done" /\ ~NoFetch(v)'
      BY <1>1, <1>7, <2>2, <3>1 DEF NoFetch
    <3>3. Owed'
      BY <1>5, <1>16, <1>19, <3>2 DEF Owed
    <3> QED  BY <3>3 DEF Lists
  <2>3. CASE stage = "done" /\ table = "users"
    <3>1. ~Owed
      BY <2>3 DEF Owed, NoFetch
    <3>2. ASSUME NEW r \in Rows
          PROVE  l[r] = rows'[r] \/ \E j \in WritingNow' : writes'[j].stage = "done" /\ writes'[j].row = r
      <4>1. CASE r = w.row
        BY <1>5, <1>7, <1>16, <1>19, <2>3, <4>1
      <4>2. CASE r # w.row
        <5>1. rows'[r] = rows[r]
          BY <1>2, <1>17, <2>3, <4>2 DEF Listings
        <5>2. l[r] = rows[r] \/ \E j \in WritingNow : writes[j].stage = "done" /\ writes[j].row = r
          BY <1>19, <3>1 DEF Lists
        <5> QED  BY <1>4, <1>5, <1>16, <1>19, <5>1, <5>2 DEF WritingNow
      <4> QED  BY <4>1, <4>2
    <3> QED  BY <1>1, <2>3, <3>2 DEF Lists
  <2>4. CASE stage = "refused"
    <3>1. rows' = rows
      BY <1>3, <2>4 DEF Refused
    <3>2. \A r \in Rows : (\E j \in WritingNow : writes[j].stage = "done" /\ writes[j].row = r)
                           => (\E j \in WritingNow' : writes'[j].stage = "done" /\ writes'[j].row = r)
      BY <1>4, <1>5, <1>16, <1>19 DEF WritingNow
    <3> QED  BY <1>1, <1>19, <2>1, <3>1, <3>2 DEF Lists
  <2> QED  BY <2>2, <2>3, <2>4
<1>20. ~behind' => ListFits'
  BY <1>1, <1>2, <1>11, <1>19, FitsKept
<1> QED  BY <1>13, <1>14, <1>15, <1>18, <1>20 DEF TablesInv

\* One fetch was started, and none before it.
LEMMA FetchStep ==
  ASSUME TablesAssumption, asks \in [Asks -> AskRecords], NEW filter \in BOOLEAN, Fetch(1, filter)
  PROVE  /\ asks' \in [Asks -> AskRecords] /\ listFailed' = FALSE
         /\ ~behind' => ~behind /\ AskedNow = {} /\ filter = onlyEnabled
         /\ AskedNow = {} => \E i \in Asks : AskedNow' = {i} /\ asks'[i].stage = "asked"
                                                           /\ asks'[i].onlyEnabled = filter
<1>1. asks' = Started(asks, 1, filter) /\ listFailed' = FALSE
  BY DEF Fetch
<1>2. ~behind' => ~behind /\ AskedNow = {} /\ filter = onlyEnabled
  BY Zenon DEF Fetch
<1>3. AskedNow = {} => \A i \in Asks : asks[i].stage = "none"
  BY DEF AskedNow
<1>4. PICK a : a = asks
  OBVIOUS
<1>5. PICK out : out = Started(a, 1, filter)
  OBVIOUS
<1>6. /\ out \in [Asks -> AskRecords]
      /\ (\A i \in Asks : a[i].stage = "none") =>
           \E i \in Asks : /\ {j \in Asks : out[j].stage # "none"} = {i}
                           /\ out[i].stage = "asked" /\ out[i].onlyEnabled = filter
  BY <1>4, <1>5, StartedCalls
<1>7. asks' = out
  BY <1>1, <1>4, <1>5
<1> QED  BY <1>1, <1>2, <1>3, <1>4, <1>6, <1>7 DEF AskedNow

\* A write is done with: nothing of it is left.
LEMMA WriteGone ==
  ASSUME NEW i \in Writes, writes \in [Writes -> WriteRecords], writes' = [writes EXCEPT ![i] = NoWrite],
         UNCHANGED table
  PROVE  /\ writes' \in [Writes -> WriteRecords] /\ WritingNow' = WritingNow \ {i}
         /\ \A j \in Writes \ {i} : writes'[j] = writes[j]
         /\ Owed => Owed' \/ (writes[i].stage = "done" /\ ~NoFetch(writes[i]))
<1>1. /\ writes' \in [Writes -> WriteRecords] /\ WritingNow' = WritingNow \ {i}
      /\ \A j \in Writes \ {i} : writes'[j] = writes[j]
  BY TableRecords DEF WritingNow
<1>2. ASSUME NEW j \in WritingNow, writes[j].stage = "done", ~NoFetch(writes[j]), j # i
      PROVE  Owed'
  <2>1. writes'[j] = writes[j] /\ j \in WritingNow'
    BY <1>1, <1>2 DEF WritingNow
  <2> QED  BY <1>2, <2>1 DEF Owed, NoFetch
<1> QED  BY <1>1, <1>2 DEF Owed

\* What a write leaves open.
LEMMA FormLeft ==
  ASSUME NEW w, form \in FormRecords
  PROVE  FormAfter(w) \in FormRecords /\ (FormAfter(w) = form \/ FormAfter(w).kind = "closed")
BY TableRecords DEF FormAfter

\* A write that is gone leaves no more open than there was.
LEMMA GoneKept ==
  ASSUME TablesInv, NEW i \in WritingNow, writes' = [writes EXCEPT ![i] = NoWrite],
         UNCHANGED <<openTab, rows, onlyEnabled, written>>,
         form' = form \/ form'.kind = "closed", AskedNow' = AskedNow, listFailed' => listFailed,
         table = "users" \/ listed' = listed, listFailed' \in BOOLEAN
  PROVE  WritesInOrder' /\ UsersAlone' /\ (behind' \/ ~behind => UsersApart')
<1>1. UNCHANGED <<table, tabsShown>>
  BY DEF openTab
<1>2. /\ WritesInOrder /\ UsersAlone /\ UsersApart /\ writes \in [Writes -> WriteRecords] /\ i \in Writes
  BY DEF TablesInv, TablesTypes, WritingNow
<1>3. /\ WritingNow' = WritingNow \ {i} /\ \A j \in WritingNow' : writes'[j] = writes[j]
  BY <1>1, <1>2, WriteGone DEF WritingNow
<1>4. WritesInOrder'
  BY <1>1, <1>2, <1>3 DEF WritesInOrder
<1>5. UsersAlone'
  BY <1>1, <1>2, <1>3 DEF UsersAlone
<1>6. behind' \/ ~behind => UsersApart'
  BY <1>1, <1>2, <1>3 DEF UsersApart
<1> QED  BY <1>4, <1>5, <1>6

LEMMA WrittenStep ==
  ASSUME TablesAssumption, TablesInv, NEW i \in Writes, Written(i)
  PROVE  TablesInv'
<1>1. /\ UNCHANGED <<table, tabsShown, rows, onlyEnabled, written, troubles>>
      /\ writes' = [writes EXCEPT ![i] = NoWrite] /\ form' = FormAfter(writes[i]) /\ savingId' = NoRow
  BY DEF Written, openTab
<1>2. /\ TablesTypes /\ WritesInOrder /\ UsersAlone /\ UsersApart /\ (~behind => ListFits)
      /\ writes \in [Writes -> WriteRecords] /\ form \in FormRecords /\ asks \in [Asks -> AskRecords]
      /\ listed \in Listings /\ rows \in Listings
  BY DEF TablesInv, TablesTypes
<1>3. PICK w \in WriteRecords : w = writes[i]
  BY <1>2
<1>4. w.stage \in {"done", "refused"} /\ i \in WritingNow
  BY <1>3 DEF Written, WritingNow
<1>5. /\ writes' \in [Writes -> WriteRecords] /\ WritingNow' = WritingNow \ {i}
      /\ \A j \in Writes \ {i} : writes'[j] = writes[j]
      /\ Owed => Owed' \/ (w.stage = "done" /\ ~NoFetch(w))
  BY <1>1, <1>2, <1>3, WriteGone
<1>6. form' \in FormRecords /\ (form' = form \/ form'.kind = "closed")
  BY <1>1, <1>2, FormLeft
<1>7. listed' = IF table = "users" /\ w.stage = "done" THEN [listed EXCEPT ![w.row] = w.value] ELSE listed
  BY <1>3 DEF Written
<1>8. listed' \in Listings
  <2>1. w.value \in Switches
    BY DEF WriteRecords
  <2> QED  BY <1>2, <1>7, <2>1 DEF Listings
<1>9. CASE w.stage = "done" /\ ~NoFetch(w)
  <2>1. table # "users" /\ listed' = listed
    BY <1>7, <1>9 DEF NoFetch
  <2>2. PICK filter \in BOOLEAN : filter = w.onlyEnabled
    BY DEF WriteRecords
  <2>3. Fetch(1, filter)
    BY <1>3, <1>9, <2>2 DEF Written
  <2>4. /\ asks' \in [Asks -> AskRecords] /\ listFailed' = FALSE
        /\ ~behind' => ~behind /\ AskedNow = {} /\ filter = onlyEnabled
        /\ AskedNow = {} => \E k \in Asks : AskedNow' = {k} /\ asks'[k].stage = "asked"
                                                          /\ asks'[k].onlyEnabled = filter
    BY <1>2, <2>3, FetchStep
  <2>5. behind' \in BOOLEAN
    BY <2>3, Zenon DEF Fetch
  <2>6. TablesTypes'
    BY <1>1, <1>2, <1>5, <1>6, <1>8, <2>4, <2>5 DEF TablesTypes
  <2>7. WritesInOrder'
    <3>1. table \in Tables
      BY <1>2, <1>4 DEF WritesInOrder
    <3> QED  BY <1>1, <1>2, <1>5, <3>1 DEF WritesInOrder
  <2>8. UsersAlone' /\ UsersApart'
    BY <1>1, <2>1 DEF UsersAlone, UsersApart
  <2>9. ~behind' => ListFits'
    BY <1>1, <2>4 DEF ListFits, FetchFits
  <2> QED  BY <2>6, <2>7, <2>8, <2>9 DEF TablesInv
<1>10. CASE ~(w.stage = "done" /\ ~NoFetch(w))
  <2>1. UNCHANGED <<asks, listFailed, behind>>
    BY <1>3, <1>10 DEF Written
  <2>2. AskedNow' = AskedNow
    BY <2>1 DEF AskedNow
  <2>3. TablesTypes'
    BY <1>1, <1>2, <1>5, <1>6, <1>8, <2>1 DEF TablesTypes
  <2>4. WritesInOrder' /\ UsersAlone' /\ UsersApart'
    <3>1. UNCHANGED openTab /\ listFailed' \in BOOLEAN /\ (listFailed' => listFailed) /\ behind' = behind
      BY <1>1, <1>2, <2>1 DEF openTab, TablesTypes
    <3>2. (table = "users" \/ listed' = listed) /\ behind \in BOOLEAN
      BY <1>2, <1>7 DEF TablesTypes
    <3> QED  BY <1>1, <1>4, <1>6, <2>2, <3>1, <3>2, GoneKept
  <2>5. Owed => Owed'
    BY <1>5, <1>10
  <2>6. CASE table = "users"
    <3>1. AskedNow = {} /\ ~onlyEnabled /\ w.row \in Rows
      BY <1>2, <1>3, <1>4, <2>6 DEF UsersAlone
    <3>2. ASSUME ~behind, NEW r \in Rows
          PROVE  listed'[r] = rows[r] \/ \E j \in WritingNow' : writes'[j].stage = "done" /\ writes'[j].row = r
      <4>1. ListFits /\ ~Owed
        BY <1>2, <2>6, <3>2 DEF Owed, NoFetch
      <4>2. listed[r] = rows[r] \/ \E j \in WritingNow : writes[j].stage = "done" /\ writes[j].row = r
        BY <3>1, <3>2, <4>1 DEF ListFits, FetchFits, Lists
      <4>3. CASE w.stage = "done" /\ r = w.row
        <5>1. rows[w.row] = w.value
          BY <1>2, <1>3, <1>4, <2>6, <3>2, <4>3 DEF UsersApart
        <5>2. listed'[r] = w.value
          BY <1>2, <1>7, <2>6, <4>3 DEF Listings
        <5> QED  BY <4>3, <5>1, <5>2
      <4>4. CASE ~(w.stage = "done" /\ r = w.row)
        <5>1. listed'[r] = listed[r]
          BY <1>2, <1>7, <4>4 DEF Listings
        <5>2. \A j \in WritingNow : writes[j].stage = "done" /\ writes[j].row = r => j # i
          BY <1>3, <4>4
        <5> QED  BY <1>5, <4>2, <5>1, <5>2 DEF WritingNow
      <4> QED  BY <4>3, <4>4
    <3>3. ~behind' => Lists(listed)'
      BY <1>1, <2>1, <2>6, <3>2 DEF Lists
    <3>4. ~behind' => ListFits'
      BY <1>1, <2>2, <3>1, <3>3 DEF ListFits
    <3> QED  BY <2>3, <2>4, <3>4 DEF TablesInv
  <2>7. CASE table # "users"
    <3>1. listed' = listed
      BY <1>7, <2>7
    <3>2. ASSUME NEW l, Lists(l)  PROVE Lists(l)'
      BY <1>1, <2>5, <2>7, <3>2 DEF Lists
    <3>3. ~behind' => ListFits'
      BY <1>1, <1>2, <2>1, <3>1, <3>2, FitsKept
    <3> QED  BY <2>3, <2>4, <3>3 DEF TablesInv
  <2> QED  BY <2>6, <2>7
<1> QED  BY <1>9, <1>10

LEMMA WriteFailsStep ==
  ASSUME TablesAssumption, TablesInv, NEW i \in Writes, WriteFails(i)
  PROVE  TablesInv'
<1>1. /\ UNCHANGED <<table, tabsShown, rows, listed, onlyEnabled, asks, listFailed, written>>
      /\ UNCHANGED <<openTab, rows, onlyEnabled, written>>
      /\ writes' = [writes EXCEPT ![i] = NoWrite] /\ savingId' = NoRow
      /\ form' = FormAfter([writes[i] EXCEPT !.stage = "refused"])
      /\ written + troubles < MaxWrites /\ troubles' = troubles + 1
  BY DEF WriteFails, openTab, tableList, Trouble
<1>2. /\ TablesTypes /\ UsersApart /\ (~behind => ListFits)
      /\ writes \in [Writes -> WriteRecords] /\ form \in FormRecords
  BY DEF TablesInv, TablesTypes
<1>3. i \in WritingNow
  BY DEF WriteFails, WritingNow
<1>4. /\ writes' \in [Writes -> WriteRecords] /\ WritingNow' = WritingNow \ {i}
      /\ \A j \in Writes \ {i} : writes'[j] = writes[j]
      /\ Owed => Owed' \/ (writes[i].stage = "done" /\ ~NoFetch(writes[i]))
  BY <1>1, <1>2, WriteGone
<1>5. form' \in FormRecords /\ (form' = form \/ form'.kind = "closed")
  BY <1>1, <1>2, FormLeft
<1>6. behind' \in BOOLEAN
  BY Zenon DEF WriteFails
<1>7. ~behind' => ~behind /\ writes[i].stage # "done"
  BY DEF WriteFails
<1>8. AskedNow' = AskedNow
  BY <1>1 DEF AskedNow
<1>9. TablesTypes'
  BY <1>1, <1>2, <1>4, <1>5, <1>6 DEF TablesTypes, TablesAssumption
<1>10. WritesInOrder' /\ UsersAlone' /\ UsersApart'
  <2>1. (listFailed' => listFailed) /\ listFailed' \in BOOLEAN
    BY <1>1, <1>2 DEF TablesTypes
  <2>2. (behind' \/ ~behind)
    BY <1>7
  <2> QED  BY <1>1, <1>3, <1>5, <1>8, <2>1, <2>2, GoneKept
<1>12. ASSUME ~behind', NEW l, Lists(l)  PROVE Lists(l)'
  <2>1. Owed => Owed'
    BY <1>4, <1>7, <1>12
  <2>2. \A r \in Rows : (\E j \in WritingNow : writes[j].stage = "done" /\ writes[j].row = r)
                         => (\E j \in WritingNow' : writes'[j].stage = "done" /\ writes'[j].row = r)
    BY <1>4, <1>7, <1>12 DEF WritingNow
  <2> QED  BY <1>1, <1>12, <2>1, <2>2 DEF Lists
<1>13. ~behind' => ListFits'
  BY <1>1, <1>2, <1>7, <1>12, FitsKept
<1> QED  BY <1>9, <1>10, <1>13 DEF TablesInv

\* A list call is answered.
LEMMA ReadStep ==
  ASSUME TablesAssumption, TablesInv, NEW i \in Asks, ReadRows(i)
  PROVE  TablesInv'
<1>1. /\ UNCHANGED <<table, tabsShown, rows, listed, onlyEnabled, listFailed, form, savingId, writes, written,
                     troubles>>
  BY DEF ReadRows, openTab, tableWork
<1>2. /\ TablesTypes /\ WritesInOrder /\ UsersAlone /\ UsersApart /\ (~behind => ListFits)
      /\ asks \in [Asks -> AskRecords] /\ rows \in Listings
  BY DEF TablesInv, TablesTypes
<1>3. PICK q \in AskRecords : q = asks[i]
  BY <1>2
<1>4. PICK l : l = [r \in Rows |-> IF q.onlyEnabled /\ rows[r] = "off" THEN "absent" ELSE rows[r]]
  OBVIOUS
<1>5. l \in Listings
  BY <1>2, <1>4 DEF Listings, Switches
<1>6. PICK p : p = [q EXCEPT !.stage = "read", !.rows = l]
  OBVIOUS
<1>7. p \in AskRecords /\ p.stage = "read" /\ p.rows = l /\ p.onlyEnabled = q.onlyEnabled
  BY <1>5, <1>6 DEF AskRecords
<1>8. asks' = [asks EXCEPT ![i] = p] /\ q.stage = "asked"
  BY <1>3, <1>4, <1>6 DEF ReadRows
<1>9. /\ AskedNow' = AskedNow /\ WritingNow' = WritingNow /\ i \in AskedNow /\ asks'[i] = p
      /\ asks' \in [Asks -> AskRecords]
  BY <1>1, <1>2, <1>3, <1>7, <1>8 DEF AskedNow, WritingNow
<1>10. behind' \in BOOLEAN
  <2>1. behind' = (behind /\ ~(AskedNow = {i} /\ asks[i].onlyEnabled = onlyEnabled))
    BY DEF ReadRows
  <2> QED  BY <2>1, Zenon
<1>11. ASSUME ~behind'  PROVE AskedNow = {i} /\ q.onlyEnabled = onlyEnabled
  <2>1. ~behind \/ (AskedNow = {i} /\ q.onlyEnabled = onlyEnabled)
    BY <1>3, <1>11 DEF ReadRows
  <2>2. ASSUME ~behind  PROVE AskedNow = {i} /\ q.onlyEnabled = onlyEnabled
    BY <1>2, <1>3, <1>9, <2>2 DEF ListFits, FetchFits
  <2> QED  BY <2>1, <2>2
<1>12. TablesTypes'
  BY <1>1, <1>2, <1>9, <1>10 DEF TablesTypes
<1>13. WritesInOrder' /\ UsersAlone'
  BY <1>1, <1>2, <1>9 DEF WritesInOrder, UsersAlone
<1>14. UsersApart'
  <2>1. table = "users" => WritingNow = {}
    BY <1>2, <1>9 DEF UsersAlone
  <2> QED  BY <1>1, <1>9, <2>1 DEF UsersApart
<1>15. ASSUME ~behind'  PROVE ListFits'
  <2>1. AskedNow' = {i} /\ asks'[i].onlyEnabled = onlyEnabled
    BY <1>7, <1>9, <1>11, <1>15
  <2>2. ASSUME ~onlyEnabled  PROVE Lists(l)'
    <3>1. \A r \in Rows : l[r] = rows[r]
      BY <1>4, <1>11, <1>15, <2>2
    <3> QED  BY <1>1, <3>1 DEF Lists
  <2> QED  BY <1>1, <1>7, <1>9, <2>1, <2>2 DEF ListFits, FetchFits
<1> QED  BY <1>12, <1>13, <1>14, <1>15 DEF TablesInv

\* The answer is listed.
LEMMA ListStep ==
  ASSUME TablesAssumption, TablesInv, NEW i \in Asks, ListRows(i)
  PROVE  TablesInv'
<1>1. /\ UNCHANGED <<table, tabsShown, rows, onlyEnabled, form, savingId, writes, written, troubles>>
      /\ listed' = asks[i].rows /\ asks[i].stage = "read"
  BY DEF ListRows, openTab, tableWork
<1>2. /\ TablesTypes /\ WritesInOrder /\ UsersAlone /\ UsersApart /\ (~behind => ListFits)
      /\ asks \in [Asks -> AskRecords] /\ onlyEnabled \in BOOLEAN /\ listFailed \in BOOLEAN
  BY DEF TablesInv, TablesTypes
<1>3. WritingNow' = WritingNow /\ i \in AskedNow /\ listed' \in Listings
  BY <1>1, <1>2 DEF WritingNow, AskedNow, AskRecords
<1>4. PICK a \in [Asks -> AskRecords] : a = [asks EXCEPT ![i] = NoAsk]
  BY <1>2, TableRecords
<1>5. PICK n \in Nat : n = IF onlyEnabled THEN 2 ELSE 0
  OBVIOUS
<1>6. PICK yes \in BOOLEAN : yes = TRUE
  OBVIOUS
<1>7. asks' = Started(a, n, yes)
  BY <1>4, <1>5, <1>6 DEF ListRows
<1>8. Started(a, n, yes) \in [Asks -> AskRecords] /\ (n = 0 => Started(a, n, yes) = a)
  BY StartedCalls
<1>9. asks' \in [Asks -> AskRecords] /\ (~onlyEnabled => asks' = a)
  BY <1>5, <1>7, <1>8
<1>10. ~onlyEnabled => AskedNow' = AskedNow \ {i}
  BY <1>2, <1>4, <1>9, TableRecords DEF AskedNow
<1>11. behind' \in BOOLEAN /\ listFailed' \in BOOLEAN
  BY Zenon DEF ListRows
<1>12. (~behind' => ~behind /\ ~onlyEnabled) /\ (listFailed' => listFailed)
  BY DEF ListRows
<1>13. TablesTypes'
  BY <1>1, <1>2, <1>3, <1>9, <1>11 DEF TablesTypes
<1>14. WritesInOrder'
  <2>1. table \in Tables
    BY <1>2, <1>3 DEF WritesInOrder
  <2> QED  BY <1>1, <1>2, <1>3, <2>1 DEF WritesInOrder
<1>15. UsersAlone'
  <2>1. table = "users" => AskedNow' = {} /\ ~onlyEnabled
    BY <1>2, <1>3, <1>10 DEF UsersAlone
  <2> QED  BY <1>1, <1>2, <1>3, <1>12, <2>1 DEF UsersAlone
<1>16. UsersApart'
  BY <1>1, <1>2, <1>3, <1>12 DEF UsersApart
<1>17. ASSUME ~behind'  PROVE ListFits'
  <2>1. FetchFits(i) /\ ~onlyEnabled
    BY <1>2, <1>3, <1>12, <1>17 DEF ListFits, FetchFits
  <2>2. AskedNow' = {}
    BY <1>10, <2>1 DEF FetchFits
  <2>3. PICK l : l = asks[i].rows
    OBVIOUS
  <2>4. Lists(l)
    BY <1>1, <2>1, <2>3 DEF FetchFits
  <2>5. Lists(l)'
    BY <1>1, <1>3, <2>4 DEF Lists, Owed, NoFetch
  <2> QED  BY <1>1, <2>1, <2>2, <2>3, <2>5 DEF ListFits
<1> QED  BY <1>13, <1>14, <1>15, <1>16, <1>17 DEF TablesInv

\* A list call fails.
LEMMA ListFailsStep ==
  ASSUME TablesAssumption, TablesInv, NEW i \in Asks, ListFails(i)
  PROVE  TablesInv'
<1>1. /\ UNCHANGED <<table, tabsShown, rows, listed, onlyEnabled, savingId, written>>
      /\ asks[i].stage # "none" /\ written + troubles < MaxWrites /\ troubles' = troubles + 1
      /\ asks' = [asks EXCEPT ![i] = NoAsk] /\ behind' = TRUE
      /\ form' = [form EXCEPT !.value = form.base, !.token = FALSE, !.step = 0]
      /\ writes' = [w \in Writes |-> [writes[w] EXCEPT !.by = IF @ = "dialog" THEN "table" ELSE @]]
  BY DEF ListFails, openTab, Trouble
<1>2. /\ TablesTypes /\ WritesInOrder /\ UsersAlone
      /\ asks \in [Asks -> AskRecords] /\ writes \in [Writes -> WriteRecords] /\ form \in FormRecords
  BY DEF TablesInv, TablesTypes
<1>3. listFailed' \in BOOLEAN /\ (table = "users" => ~listFailed')
  BY Zenon DEF ListFails
<1>4. /\ i \in AskedNow /\ AskedNow' = AskedNow \ {i} /\ asks' \in [Asks -> AskRecords]
  BY <1>1, <1>2, TableRecords DEF AskedNow
<1>5. form' \in FormRecords /\ form'.kind = form.kind /\ form'.row = form.row
  <2>1. form.base \in Switches /\ 0 \in 0..LastStep
    BY <1>2 DEF FormRecords, LastStep
  <2> QED  BY <1>1, <1>2, <2>1 DEF FormRecords
<1>6. ASSUME NEW w \in Writes
      PROVE  /\ writes'[w] \in WriteRecords /\ writes'[w].stage = writes[w].stage /\ writes'[w].op = writes[w].op
             /\ writes'[w].row = writes[w].row /\ (writes[w].by # "nobody" => writes'[w].by # "nobody")
  <2>1. PICK b : b = IF writes[w].by = "dialog" THEN "table" ELSE writes[w].by
    OBVIOUS
  <2>2. b \in {"dialog", "table", "nobody"} /\ (writes[w].by # "nobody" => b # "nobody")
    BY <1>2, <2>1 DEF WriteRecords
  <2>3. writes'[w] = [writes[w] EXCEPT !.by = b]
    BY <1>1, <2>1
  <2>4. writes[w] \in WriteRecords
    BY <1>2
  <2> QED  BY <2>2, <2>3, <2>4, WriteHandedOver
<1>7. writes' \in [Writes -> WriteRecords]
  <2>1. writes' = [w \in Writes |-> writes'[w]]
    BY <1>1
  <2> QED  BY <1>6, <2>1
<1>8. WritingNow' = WritingNow
  BY <1>6 DEF WritingNow
<1>9. TablesTypes'
  BY <1>1, <1>2, <1>3, <1>4, <1>5, <1>7 DEF TablesTypes, TablesAssumption
<1>10. WritesInOrder'
  <2>1. table \in Tables
    BY <1>2, <1>4 DEF WritesInOrder
  <2> QED  BY <1>1, <1>2, <1>8, <2>1 DEF WritesInOrder
<1>11. UsersAlone'
  <2>1. \A w \in WritingNow : /\ writes'[w].op = writes[w].op /\ writes'[w].row = writes[w].row
                              /\ (writes[w].by # "nobody" => writes'[w].by # "nobody")
    BY <1>6 DEF WritingNow
  <2> QED  BY <1>1, <1>2, <1>3, <1>4, <1>5, <1>8, <2>1 DEF UsersAlone
<1>12. UsersApart'
  BY <1>1 DEF UsersApart
<1> QED  BY <1>1, <1>9, <1>10, <1>11, <1>12 DEF TablesInv

\* A table is mounted.
LEMMA MountStep ==
  ASSUME TablesAssumption, TablesInv, NEW a, MountTable(a), a \in [Asks -> AskRecords],
         {i \in Asks : a[i].stage # "none"} \subseteq {1},
         table' \in Tables, tabsShown' \in BOOLEAN, tabsShown' \/ table' \in GatewayTabs, rows' \in Listings,
         written' = written, troubles' \in Nat, written + troubles' <= MaxWrites,
         writes' \in [Writes -> WriteRecords], WritingNow' \subseteq WritingNow,
         table' = "users" => WritingNow' = {}
  PROVE  TablesInv'
<1>1. /\ TablesTypes /\ WritesInOrder
  BY DEF TablesInv
<1>2. /\ listed' = NoRows /\ ~onlyEnabled' /\ ~listFailed' /\ asks' = a /\ form' = NoForm /\ savingId' = NoRow
      /\ behind'
  BY DEF MountTable
<1>3. onlyEnabled' \in BOOLEAN /\ listFailed' \in BOOLEAN /\ behind' \in BOOLEAN
  BY Zenon DEF MountTable
<1>4. AskedNow' \subseteq {1}
  BY <1>2 DEF AskedNow
<1>5. TablesTypes'
  BY <1>1, <1>2, <1>3, TableRecords DEF TablesTypes
<1>6. WritesInOrder'
  BY <1>1 DEF WritesInOrder
<1>7. UsersAlone'
  BY <1>2, <1>4, TableRecords DEF UsersAlone
<1>8. UsersApart'
  BY <1>2 DEF UsersApart
<1> QED  BY <1>2, <1>5, <1>6, <1>7, <1>8 DEF TablesInv

\* Another table is opened, or the open one taken off the page and put back.
LEMMA TabStep ==
  ASSUME TablesAssumption, TablesInv, AdminKnown \/ PollFails \/ PollAgain \/ \E t \in Tables : OpenTab(t)
  PROVE  TablesInv'
<1>0. /\ TablesTypes /\ WritesInOrder
      /\ writes \in [Writes -> WriteRecords] /\ rows \in Listings /\ tabsShown \in BOOLEAN
      /\ written \in Nat /\ troubles \in Nat /\ written + troubles <= MaxWrites
  BY DEF TablesInv, TablesTypes
<1>1. PICK a \in [Asks -> AskRecords] : a = FirstAsk
  BY FirstCall
<1>2. {i \in Asks : a[i].stage # "none"} \subseteq {1}
  BY <1>1, FirstCall
<1>3. \A r \in Rows : "absent" \in Switches /\ "on" \in Switches
  BY DEF Switches
<1>4. CASE AdminKnown
  <2>1. table = "checking" /\ WritingNow = {}
    BY <1>0, <1>4 DEF AdminKnown, WritesInOrder, Tables, GatewayTabs
  <2>2. UNCHANGED <<tabsShown, rows, writes, written, troubles>> /\ WritingNow' = {} /\ tabsShown
    BY <1>0, <1>4, <2>1 DEF AdminKnown, WritingNow, WritesInOrder, GatewayTabs
  <2>3. CASE table' = "users" /\ MountTable(FirstAsk)
    <3>1. MountTable(a) /\ table' \in Tables
      BY <1>1, <2>3 DEF Tables
    <3> QED  BY <1>0, <1>2, <2>1, <2>2, <3>1, MountStep
  <2>4. CASE table' = "left" /\ UNCHANGED <<tableList, form, savingId, behind>>
    <3>1. /\ UNCHANGED <<listed, onlyEnabled, asks, listFailed>> /\ AskedNow' = AskedNow
      BY <2>4 DEF tableList, AskedNow
    <3>2. table \notin Tables /\ table' \notin Tables /\ table' # "users"
      BY <2>1, <2>4 DEF Tables, GatewayTabs
    <3>3. TablesTypes'
      BY <1>0, <2>2, <2>4, <3>1 DEF TablesTypes
    <3>4. WritesInOrder'
      BY <1>0, <2>1, <2>2, <2>4, <3>1, <3>2 DEF WritesInOrder
    <3>5. UsersAlone' /\ UsersApart'
      BY <3>2 DEF UsersAlone, UsersApart
    <3>6. behind'
      BY <1>0, <2>4, <3>2 DEF WritesInOrder
    <3> QED  BY <3>3, <3>4, <3>5, <3>6 DEF TablesInv
  <2> QED  BY <1>4, <2>3, <2>4 DEF AdminKnown
<1>5. ASSUME NEW t \in Tables, OpenTab(t)  PROVE TablesInv'
  <2>1. /\ table' = t /\ tabsShown' = TRUE /\ MountTable(a) /\ rows' \in [Rows -> {"absent", "on"}]
        /\ writes' = [i \in Writes |-> NoWrite] /\ written' = written /\ troubles' = troubles
    BY <1>1, <1>5 DEF OpenTab
  <2>2. rows' \in Listings
    BY <2>1 DEF Listings, Switches
  <2>3. writes' \in [Writes -> WriteRecords] /\ WritingNow' = {}
    BY <2>1, TableRecords DEF WritingNow
  <2>4. tabsShown' \in BOOLEAN
    BY <2>1, Zenon
  <2> QED  BY <1>0, <1>2, <2>1, <2>2, <2>3, <2>4, MountStep
<1>6. CASE PollFails
  <2>1. PICK b \in [Asks -> AskRecords] : b = [i \in Asks |-> NoAsk]
    BY TableRecords
  <2>2. {i \in Asks : b[i].stage # "none"} \subseteq {1}
    BY <2>1, TableRecords
  <2>3. /\ table \in GatewayTabs /\ tabsShown' = FALSE /\ MountTable(b) /\ UNCHANGED <<table, rows, written>>
        /\ written + troubles < MaxWrites /\ troubles' = troubles + 1
        /\ writes' = [i \in Writes |-> IF writes[i].stage = "sent"
                                         THEN [writes[i] EXCEPT !.by = "nobody"] ELSE NoWrite]
    BY <1>6, <2>1 DEF PollFails, Trouble
  <2>4. ASSUME NEW i \in Writes
        PROVE  writes'[i] \in WriteRecords /\ (writes'[i].stage # "none" => writes[i].stage # "none")
    <3>1. PICK v : v = [writes[i] EXCEPT !.by = "nobody"]
      OBVIOUS
    <3>2. v \in WriteRecords
      BY <1>0, <3>1, WriteHandedOver
    <3> QED  BY <2>3, <3>1, <3>2, TableRecords
  <2>5. writes' \in [Writes -> WriteRecords] /\ WritingNow' \subseteq WritingNow
    <3>1. writes' = [i \in Writes |-> writes'[i]]
      BY <2>3
    <3> QED  BY <2>4, <3>1 DEF WritingNow
  <2>6. tabsShown' \in BOOLEAN
    BY <2>3, Zenon
  <2>7. table' \in GatewayTabs /\ table' \in Tables /\ table' # "users"
    BY <2>3 DEF Tables, GatewayTabs
  <2>8. troubles' \in Nat /\ written + troubles' <= MaxWrites
    BY <1>0, <2>3 DEF TablesAssumption
  <2> QED  BY <1>0, <2>2, <2>3, <2>5, <2>6, <2>7, <2>8, MountStep
<1>7. CASE PollAgain
  <2>1. /\ table \in GatewayTabs /\ tabsShown' = TRUE /\ MountTable(a)
        /\ UNCHANGED <<table, rows, writes, written, troubles>>
    BY <1>0, <1>1, <1>7 DEF PollAgain, WritesInOrder
  <2>2. tabsShown' \in BOOLEAN /\ WritingNow' = WritingNow
    <3>1. tabsShown' \in BOOLEAN
      BY <2>1, Zenon
    <3> QED  BY <2>1, <3>1 DEF WritingNow
  <2>3. table' \in Tables /\ table' # "users"
    BY <2>1 DEF Tables, GatewayTabs
  <2> QED  BY <1>0, <1>2, <2>1, <2>2, <2>3, MountStep
<1> QED  BY <1>4, <1>5, <1>6, <1>7

\* The hook fetches without having been answered a write.
LEMMA AskStep ==
  ASSUME TablesAssumption, TablesInv, RetryList \/ FilterEnabled
  PROVE  TablesInv'
<1>0. /\ TablesTypes /\ WritesInOrder /\ UsersAlone /\ asks \in [Asks -> AskRecords] /\ onlyEnabled \in BOOLEAN
  BY DEF TablesInv, TablesTypes
<1>1. /\ UNCHANGED <<table, tabsShown, rows, listed, form, savingId, writes, written, troubles>>
  BY DEF RetryList, FilterEnabled, openTab, tableWork
<1>2. table \in Tables /\ table # "users"
  <2>1. CASE RetryList
    BY <1>0, <2>1 DEF RetryList, WritesInOrder, UsersAlone
  <2>2. CASE FilterEnabled
    BY <2>2 DEF FilterEnabled, Tables, GatewayTabs
  <2> QED  BY <2>1, <2>2
<1>3. /\ asks' \in [Asks -> AskRecords] /\ ~listFailed' /\ (~behind' => ListFits')
      /\ behind' \in BOOLEAN /\ listFailed' \in BOOLEAN /\ onlyEnabled' \in BOOLEAN
  <2>1. CASE RetryList
    <3>1. PICK filter \in BOOLEAN : filter = onlyEnabled
      BY <1>0
    <3>2. Fetch(1, filter) /\ onlyEnabled' = onlyEnabled
      BY <2>1, <3>1 DEF RetryList
    <3>3. /\ asks' \in [Asks -> AskRecords] /\ listFailed' = FALSE
          /\ ~behind' => AskedNow = {}
          /\ AskedNow = {} => \E i \in Asks : AskedNow' = {i} /\ asks'[i].stage = "asked"
                                                            /\ asks'[i].onlyEnabled = filter
      BY <1>0, <3>2, FetchStep
    <3>4. behind' \in BOOLEAN /\ listFailed' \in BOOLEAN
      BY <3>2, Zenon DEF Fetch
    <3> QED  BY <1>0, <3>1, <3>2, <3>3, <3>4 DEF ListFits, FetchFits
  <2>2. CASE FilterEnabled
    <3>1. PICK filter \in BOOLEAN : filter = ~onlyEnabled
      OBVIOUS
    <3>2. PICK n \in Nat : n = IF onlyEnabled THEN 1 ELSE 2
      OBVIOUS
    <3>3. Fetch(n, filter) /\ onlyEnabled' = filter
      BY <2>2, <3>1, <3>2 DEF FilterEnabled
    <3>4. asks' = Started(asks, n, filter)
      BY <3>3 DEF Fetch
    <3>5. asks' \in [Asks -> AskRecords]
      BY <1>0, <3>4, StartedCalls
    <3>6. behind' \in BOOLEAN /\ listFailed' \in BOOLEAN /\ ~listFailed'
      BY <3>3, Zenon DEF Fetch
    <3>7. behind'
      BY <1>0, <3>1, <3>3 DEF Fetch
    <3> QED  BY <3>3, <3>5, <3>6, <3>7
  <2> QED  BY <2>1, <2>2
<1>4. TablesTypes'
  BY <1>0, <1>1, <1>3 DEF TablesTypes
<1>5. WritesInOrder'
  <2>1. WritingNow' = WritingNow
    BY <1>1 DEF WritingNow
  <2> QED  BY <1>0, <1>1, <1>2, <2>1 DEF WritesInOrder
<1>6. UsersAlone' /\ UsersApart'
  BY <1>1, <1>2 DEF UsersAlone, UsersApart
<1> QED  BY <1>3, <1>4, <1>5, <1>6 DEF TablesInv

\* Somebody else writes.
LEMMA OtherStep ==
  ASSUME TablesAssumption, TablesInv, OtherAdmin
  PROVE  TablesInv'
<1>1. /\ UNCHANGED <<table, tabsShown, listed, onlyEnabled, asks, listFailed, form, savingId, writes, written>>
      /\ behind' = TRUE /\ written + troubles < MaxWrites /\ troubles' = troubles + 1
  BY DEF OtherAdmin, Trouble, openTab, tableList, tableWork
<1>2. /\ TablesTypes /\ WritesInOrder /\ UsersAlone /\ rows \in Listings
  BY DEF TablesInv, TablesTypes
<1>3. rows' \in Listings
  <2>1. PICK r \in Rows, v \in Switches : rows' = [rows EXCEPT ![r] = v]
    BY DEF OtherAdmin, Switches
  <2> QED  BY <1>2, <2>1 DEF Listings
<1>4. AskedNow' = AskedNow /\ WritingNow' = WritingNow /\ behind' \in BOOLEAN
  <2>1. behind' \in BOOLEAN
    BY <1>1, Zenon
  <2> QED  BY <1>1, <2>1 DEF AskedNow, WritingNow
<1>5. TablesTypes'
  BY <1>1, <1>2, <1>3, <1>4 DEF TablesTypes, TablesAssumption
<1>6. WritesInOrder' /\ UsersAlone'
  BY <1>1, <1>2, <1>4 DEF WritesInOrder, UsersAlone
<1>7. UsersApart'
  BY <1>1 DEF UsersApart
<1> QED  BY <1>1, <1>5, <1>6, <1>7 DEF TablesInv

\* A row is opened in a dialog.
LEMMA RowOpened ==
  ASSUME TablesTypes, NEW r \in Rows
  PROVE  RowForm(r) \in FormRecords /\ RowForm(r).kind = "dialog" /\ RowForm(r).row = r
<1>1. listed[r] \in Switches
  BY DEF TablesTypes, Listings
<1> QED  BY <1>1, TableRecords DEF RowForm, FormRecords, NoForm

\* The menus of the rows.
LEMMA MenuStep ==
  ASSUME TablesAssumption, TablesInv, NEW r \in Rows,
         ChannelsMenu(r) \/ WebhooksMenu(r) \/ CronMenu(r) \/ SessionsMenu(r)
  PROVE  TablesInv'
<1>0. TablesTypes /\ behind \in BOOLEAN /\ savingId \in Rows \cup {NoRow}
  BY DEF TablesInv, TablesTypes
<1>1. /\ table \in Tables /\ table # "users" /\ UNCHANGED <<openTab, rows, tableList, troubles, behind>>
  BY DEF ChannelsMenu, WebhooksMenu, CronMenu, SessionsMenu, Tables, GatewayTabs
<1>2. PICK f : f = [NoForm EXCEPT !.kind = "confirm", !.row = r]
  OBVIOUS
<1>3. f \in FormRecords
  BY <1>2, TableRecords DEF FormRecords
<1>4. \/ form' \in {RowForm(r), f} /\ UNCHANGED <<savingId, writes, written>>
      \/ \E op \in {"delete", "toggle", "execute", "archive"}, v \in {"on", "off"} : FromRow(op, r, v)
  BY <1>2 DEF ChannelsMenu, WebhooksMenu, CronMenu, SessionsMenu, EditRow
<1>5. CASE form' \in {RowForm(r), f} /\ UNCHANGED <<savingId, writes, written>>
  <2>1. FormChanges /\ form' \in FormRecords
    BY <1>0, <1>1, <1>3, <1>5, RowOpened DEF FormChanges
  <2> QED  BY <1>1, <2>1, FormStep
<1>6. ASSUME NEW op \in {"delete", "toggle", "execute", "archive"}, NEW v \in {"on", "off"}, FromRow(op, r, v)
      PROVE  TablesInv'
  <2>1. op \in Operations /\ v \in Switches /\ SendWrite(op, r, v) /\ UNCHANGED <<form, savingId>>
        /\ r \in Rows \cup {NoRow}
    BY <1>6 DEF Operations, Switches, FromRow
  <2> QED  BY <1>0, <1>1, <2>1, SendStep
<1> QED  BY <1>4, <1>5, <1>6

\* What is done in a dialog.
LEMMA DialogStep ==
  ASSUME TablesAssumption, TablesInv,
         \/ AddRow \/ Toggle \/ ChangeTools \/ OpenWizard \/ CloseForm \/ ApplyTemplate \/ EnterToken
         \/ SwitchNewChannel \/ StepWizard \/ ChangeUser \/ \E r \in Rows : EditUser(r)
  PROVE  TablesInv'
<1>0. TablesTypes /\ form \in FormRecords /\ WritesInOrder /\ UsersAlone
  BY DEF TablesInv, TablesTypes
<1>1. FormChanges
  BY DEF AddRow, Toggle, ChangeTools, OpenWizard, CloseForm, ApplyTemplate, EnterToken, SwitchNewChannel,
         StepWizard, ChangeUser, EditUser
<1>2. PICK f : f = Flipped
  OBVIOUS
<1>3. f \in FormRecords /\ f.kind = form.kind /\ f.row = form.row
  BY <1>0, <1>2 DEF Flipped, FormRecords, Switches
<1>4. "users" \in Tables /\ "users" \notin GatewayTabs /\ GatewayTabs \subseteq Tables
  BY DEF Tables, GatewayTabs
<1>5. \/ form' \in FormRecords /\ form'.kind = form.kind /\ form'.row = form.row /\ form.kind # "closed"
      \/ form' \in FormRecords /\ table \in GatewayTabs
      \/ form' = NoForm
      \/ \E r \in Rows : EditUser(r)
  <2>1. CASE AddRow \/ OpenWizard
    BY <2>1, TableRecords DEF AddRow, OpenWizard, GatewayTabs, NoForm, FormRecords
  <2>2. CASE Toggle \/ ChangeTools \/ SwitchNewChannel \/ ChangeUser
    BY <1>2, <1>3, <2>2 DEF Toggle, ChangeTools, SwitchNewChannel, AtStep, ChangeUser
  <2>3. CASE ApplyTemplate
    BY <1>0, <2>3 DEF ApplyTemplate, AtStep, FormRecords, Switches
  <2>4. CASE EnterToken
    <3>1. PICK b \in BOOLEAN : b = ~form.token
      OBVIOUS
    <3>2. form' = [form EXCEPT !.token = b] /\ form.kind # "closed"
      BY <2>4, <3>1 DEF EnterToken, AtStep
    <3> QED  BY <1>0, <3>1, <3>2 DEF FormRecords
  <2>5. CASE StepWizard
    BY <1>0, <2>5 DEF StepWizard, FormRecords, LastStep
  <2>6. CASE CloseForm
    BY <2>6 DEF CloseForm
  <2> QED  BY <2>1, <2>2, <2>3, <2>4, <2>5, <2>6
<1>6. CASE form' \in FormRecords /\ form'.kind = form.kind /\ form'.row = form.row /\ form.kind # "closed"
  <2>1. table \in Tables
    BY <1>0, <1>6 DEF WritesInOrder
  <2>2. table = "users" => form.kind = "dialog" /\ form.row \in Rows /\ AskedNow = {}
    BY <1>0, <1>6 DEF UsersAlone
  <2> QED  BY <1>1, <1>6, <2>1, <2>2, FormStep
<1>7. CASE form' \in FormRecords /\ table \in GatewayTabs
  BY <1>1, <1>4, <1>7, FormStep
<1>8. CASE form' = NoForm
  BY <1>1, <1>8, TableRecords, FormStep
<1>9. ASSUME NEW r \in Rows, EditUser(r)  PROVE TablesInv'
  <2>1. table = "users" /\ listed[r] # "absent" /\ form' = RowForm(r)
    BY <1>9 DEF EditUser
  <2>2. AskedNow = {}
    BY <1>0, <2>1 DEF UsersAlone, NoRows
  <2>3. table \in Tables
    BY <1>4, <2>1
  <2>4. form' \in FormRecords /\ form'.kind = "dialog" /\ form'.row \in Rows
    BY <1>0, <2>1, RowOpened
  <2> QED  BY <1>1, <2>1, <2>2, <2>3, <2>4, FormStep
<1> QED  BY <1>5, <1>6, <1>7, <1>8, <1>9

\* What a dialog sends.
LEMMA SubmitStep ==
  ASSUME TablesAssumption, TablesInv, SubmitForm \/ SubmitTools \/ ConfirmDelete \/ CreateByWizard \/ SaveUser
  PROVE  TablesInv'
<1>0. /\ TablesTypes /\ WritesInOrder /\ UsersAlone /\ form \in FormRecords /\ behind \in BOOLEAN
      /\ savingId \in Rows \cup {NoRow}
  BY DEF TablesInv, TablesTypes
<1>1. /\ form.row \in Rows \cup {NoRow} /\ form.value \in Switches /\ "on" \in Switches
      /\ {"create", "update", "delete", "wizard"} \subseteq Operations
  BY <1>0 DEF FormRecords, Switches, Operations
<1>2. table \in Tables
  <2>1. form.kind # "closed"
    BY DEF SubmitForm, SubmitTools, ConfirmDelete, CreateByWizard, AtStep, SaveUser
  <2> QED  BY <1>0, <2>1 DEF WritesInOrder
<1>3. CASE SubmitForm \/ SubmitTools \/ ConfirmDelete \/ CreateByWizard
  <2>1. table # "users"
    BY <1>0, <1>3 DEF SubmitForm, SubmitTools, ConfirmDelete, CreateByWizard, AtStep, UsersAlone
  <2>2. PICK op \in Operations, r \in Rows \cup {NoRow}, v \in Switches : FromRow(op, r, v)
    <3>1. CASE SubmitForm
      BY <1>1, <3>1 DEF SubmitForm
    <3>2. CASE SubmitTools
      BY <1>1, <3>2 DEF SubmitTools
    <3>3. CASE ConfirmDelete
      BY <1>1, <3>3 DEF ConfirmDelete
    <3>4. CASE CreateByWizard
      BY <1>1, <3>4 DEF CreateByWizard
    <3> QED  BY <1>3, <3>1, <3>2, <3>3, <3>4
  <2>3. /\ UNCHANGED <<openTab, rows, tableList, troubles, behind>> /\ SendWrite(op, r, v)
        /\ UNCHANGED <<form, savingId>>
    BY <1>3, <2>2 DEF SubmitForm, SubmitTools, ConfirmDelete, CreateByWizard, FormSends, FromRow
  <2> QED  BY <1>0, <1>2, <2>1, <2>3, SendStep
<1>4. CASE SaveUser
  <2>1. /\ table = "users" /\ form.kind = "dialog" /\ savingId' = form.row
        /\ UNCHANGED <<openTab, rows, tableList, form, troubles>>
    BY <1>4 DEF SaveUser
  <2>2. form.row \in Rows /\ AskedNow = {}
    BY <1>0, <2>1 DEF UsersAlone
  <2>3. PICK op \in Operations, r \in Rows, v \in Switches : op = "update" /\ r = form.row /\ v = form.value
    BY <1>1, <2>2
  <2>4. SendWrite(op, r, v)
    BY <1>4, <2>3 DEF SaveUser
  <2>5. behind' \in BOOLEAN
    BY <1>4, Zenon DEF SaveUser
  <2>6. (behind => behind') /\ (~behind' => \A i \in WritingNow : writes[i].row # r)
    BY <1>4, <2>3 DEF SaveUser
  <2> QED  BY <1>1, <1>2, <2>1, <2>2, <2>3, <2>4, <2>5, <2>6, SendStep
<1> QED  BY <1>3, <1>4

LEMMA TablesStep ==
  ASSUME TablesAssumption, TablesInv, [TablesNext]_tableVars
  PROVE  TablesInv'
<1>1. ASSUME NEW i \in Asks, ReadRows(i) \/ ListRows(i) \/ ListFails(i)  PROVE TablesInv'
  BY <1>1, ReadStep, ListStep, ListFailsStep
<1>2. ASSUME NEW i \in Writes, HandleWrite(i) \/ Written(i) \/ WriteFails(i)  PROVE TablesInv'
  BY <1>2, HandleStep, WrittenStep, WriteFailsStep
<1>3. ASSUME NEW r \in Rows, ChannelsMenu(r) \/ WebhooksMenu(r) \/ CronMenu(r) \/ SessionsMenu(r)
      PROVE  TablesInv'
  BY <1>3, MenuStep
<1>4. ASSUME \/ AddRow \/ Toggle \/ ChangeTools \/ OpenWizard \/ CloseForm \/ ApplyTemplate \/ EnterToken
             \/ SwitchNewChannel \/ StepWizard \/ ChangeUser \/ \E r \in Rows : EditUser(r)
      PROVE  TablesInv'
  BY <1>4, DialogStep
<1>5. ASSUME SubmitForm \/ SubmitTools \/ ConfirmDelete \/ CreateByWizard \/ SaveUser
      PROVE  TablesInv'
  BY <1>5, SubmitStep
<1>6. ASSUME AdminKnown \/ PollFails \/ PollAgain \/ \E t \in Tables : OpenTab(t)
      PROVE  TablesInv'
  BY <1>6, TabStep
<1>7. ASSUME RetryList \/ FilterEnabled  PROVE TablesInv'
  BY <1>7, AskStep
<1>8. CASE OtherAdmin
  BY <1>8, OtherStep
<1>9. CASE UNCHANGED tableVars
  <2>1. FormChanges /\ form' = form
    BY <1>9 DEF tableVars, tableWork, FormChanges
  <2>2. form' \in FormRecords /\ (table \notin Tables => form'.kind = "closed")
    BY <2>1 DEF TablesInv, TablesTypes, WritesInOrder
  <2>3. table = "users" => form'.kind = "closed" \/ (form'.kind = "dialog" /\ form'.row \in Rows /\ AskedNow = {})
    BY <2>1 DEF TablesInv, UsersAlone
  <2> QED  BY <2>1, <2>2, <2>3, FormStep
<1> QED  BY <1>1, <1>2, <1>3, <1>4, <1>5, <1>6, <1>7, <1>8, <1>9 DEF TablesNext

LEMMA TablesStart ==
  ASSUME TablesAssumption, TablesInit
  PROVE  TablesInv
<1>1. /\ asks \in [Asks -> AskRecords] /\ AskedNow = {} /\ writes \in [Writes -> WriteRecords] /\ WritingNow = {}
      /\ form \in FormRecords /\ form.kind = "closed" /\ listed \in Listings
  BY TableRecords DEF TablesInit, AskedNow, WritingNow
<1>2. /\ onlyEnabled \in BOOLEAN /\ listFailed \in BOOLEAN /\ behind \in BOOLEAN /\ tabsShown \in BOOLEAN
  BY Zenon DEF TablesInit
<1>3. rows \in Listings
  BY DEF TablesInit, Listings, Switches
<1>4. table = "checking" /\ table \notin Tables /\ behind /\ tabsShown /\ listed = NoRows /\ ~listFailed
  BY DEF TablesInit, Tables, GatewayTabs
<1>5. TablesTypes
  BY <1>1, <1>2, <1>3 DEF TablesInit, TablesTypes, TablesAssumption
<1>6. UsersAlone /\ UsersApart
  BY <1>4 DEF UsersAlone, UsersApart
<1> QED  BY <1>1, <1>4, <1>5, <1>6 DEF TablesInv, WritesInOrder

\* Nothing is under way: nobody owes the list a fetch or a change.
LEMMA TablesImply == TablesInv => TableIsCurrent
<1> SUFFICES ASSUME TablesInv, AskedNow = {}, WritingNow = {}, ~listFailed, ~behind
             PROVE  listed = rows
  BY DEF TableIsCurrent
<1>1. Lists(listed) /\ ~Owed
  BY DEF TablesInv, ListFits, FetchFits, Owed
<1>2. \A r \in Rows : listed[r] = rows[r]
  BY <1>1 DEF Lists
<1>3. listed \in Listings /\ rows \in Listings
  BY DEF TablesInv, TablesTypes
<1> QED  BY <1>2, <1>3 DEF Listings

LEMMA TablesKept == TablesSpec => []TablesInv
<1>1. TablesInit => TablesInv
  BY TablesAssumption, TablesStart
<1>2. TablesInv /\ [TablesNext]_tableVars => TablesInv'
  BY TablesAssumption, TablesStep
<1> QED  BY <1>1, <1>2, PTL DEF TablesSpec

\* For every set of rows and any number of calls and writes: once all is
\* answered the open table lists what the server has, unless a call failed,
\* calls overlapped, somebody else wrote or the channel dialog saved.
THEOREM TableStaysCurrent == TablesSpec => []TableIsCurrent
BY TablesKept, TablesImply, PTL

\* The lists, forms and writes of the tables are of rows.
THEOREM TablesTyping == TablesSpec => []TablesTypeOK
<1>1. TablesInv => TablesTypeOK
  BY TablesAssumption
  DEF TablesAssumption, TablesInv, TablesTypes, Listings, Switches, AskRecords, FormRecords,
      WriteRecords, TablesTypeOK
<1> QED  BY <1>1, TablesKept, PTL

==================================================================================
