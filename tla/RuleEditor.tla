------------------------------ MODULE RuleEditor -------------------------------
(***************************************************************************)
(* The webhook dialog and its editor of transform rules: WebhookDialog.tsx *)
(* and WebhookTransformEditor.tsx.  What a save does to the row is in      *)
(* GatewayTables.                                                          *)
(*                                                                         *)
(* A rule is blank or filled in.  The form holds the rules as text: empty, *)
(* no JSON, an object without rules (what the server stores for none, or   *)
(* the mapping of the form's placeholder), an object with a list of them   *)
(* inside, or a list.  The editor keeps two copies of its own, a list and  *)
(* a raw text, and reads the form's text only when it is mounted.          *)
(***************************************************************************)
EXTENDS Naturals, Sequences, SequencesExt

CONSTANT MaxRules        \* bound: rules of a list

ASSUME RuleAssumption == MaxRules \in Nat \ {0}

VARIABLES dialogOpen,    \* WebhookDialog: open
          original,      \* the rules of the row the dialog was opened with
          formRules,     \* form field transform_rules
          editorOpen,    \* transformEditorOpen, which outlives the dialog's closing
          ruleList,      \* WebhookTransformEditor: rules
          rawRules,      \* WebhookTransformEditor: rawJson
          tab,           \* WebhookTransformEditor: activeTab
          ruleSave,      \* a save is under way
          remounted      \* history: the dialog was opened with the editor open

ruleEditor == <<ruleList, rawRules, tab>>
ruleDialog == <<dialogOpen, original, editorOpen, remounted, ruleSave>>
ruleVars == <<ruleDialog, formRules, ruleEditor>>

RuleLists == BoundedSeq({"blank", "filled"}, MaxRules)

\* rulesToJson; parseRules, which makes no rules of a text that has no list.
ListText(list) == [kind |-> "list", rules |-> list]
Text(kind) == [kind |-> kind, rules |-> <<>>]
Parsed(text) == text.rules
RuleTexts == [kind : {"list", "wrapped"}, rules : RuleLists]
               \cup {Text(kind) : kind \in {"empty", "noJSON", "mapping"}}

RuleTypeOK ==
    /\ dialogOpen \in BOOLEAN /\ editorOpen \in BOOLEAN /\ remounted \in BOOLEAN
    /\ original \in RuleTexts /\ formRules \in RuleTexts /\ rawRules \in RuleTexts
    /\ ruleList \in RuleLists /\ tab \in {"visual", "json"}
    /\ ruleSave \in BOOLEAN

RuleInit ==
    /\ dialogOpen = FALSE /\ original = Text("empty")
    /\ formRules = Text("empty") /\ editorOpen = FALSE
    /\ ruleList = <<>> /\ rawRules = ListText(<<>>) /\ tab = "visual"
    /\ ruleSave = FALSE /\ remounted = FALSE

-------------------------------------------------------------------------------
(* The dialog.                                                             *)

\* The editor's initial state, from the text it is given.
Mount(text) ==
    /\ ruleList' = Parsed(text) /\ rawRules' = ListText(Parsed(text)) /\ tab' = "visual"

\* The dialog is opened for a row of the table, whose rules may be any, or for a
\* new webhook: the form is reset.  With the editor left open, that is mounted in
\* the same commit, before or after the reset.
OpenHook(rules) ==
    /\ ~dialogOpen
    /\ dialogOpen' = TRUE
    /\ original' = rules /\ formRules' = rules
    /\ remounted' = editorOpen
    /\ IF editorOpen THEN Mount(formRules) \/ Mount(rules) ELSE UNCHANGED ruleEditor
    /\ UNCHANGED <<editorOpen, ruleSave>>

\* Closed by any means: the form is reset as well, to the row it has.
Close == dialogOpen' = FALSE /\ formRules' = original

CloseHook ==
    /\ dialogOpen
    /\ Close
    /\ UNCHANGED <<original, editorOpen, remounted, ruleEditor, ruleSave>>

\* The form's text area, which the editor takes the place of.
TypeRules(text) ==
    /\ dialogOpen /\ ~editorOpen
    /\ formRules' = text
    /\ UNCHANGED <<ruleDialog, ruleEditor>>

\* "Open Editor", "Close Editor".
ToggleEditor ==
    /\ dialogOpen
    /\ editorOpen' = ~editorOpen /\ remounted' = FALSE
    /\ IF editorOpen THEN UNCHANGED ruleEditor ELSE Mount(formRules)
    /\ UNCHANGED <<dialogOpen, original, formRules, ruleSave>>

\* onSubmit, after the schema's check that the text is JSON or empty.
SubmitRules ==
    /\ dialogOpen /\ formRules # Text("noJSON") /\ ~ruleSave
    /\ ruleSave' = TRUE
    /\ UNCHANGED <<dialogOpen, original, formRules, editorOpen, ruleEditor, remounted>>

\* A success closes whichever dialog is open by now; a failure leaves it.
RulesAnswered ==
    /\ ruleSave
    /\ ruleSave' = FALSE
    /\ \/ dialogOpen /\ Close
       \/ UNCHANGED <<dialogOpen, formRules>>
    /\ UNCHANGED <<original, editorOpen, ruleEditor, remounted>>

-------------------------------------------------------------------------------
(* The editor.                                                             *)

Editing(t) == dialogOpen /\ editorOpen /\ tab = t

\* Mutant: the form is not told.
SetRulesHere(list) ==
    /\ ruleList' = list /\ rawRules' = ListText(list)
    /\ UNCHANGED formRules

\* setRules with syncToParent; the effect on rules follows with the raw text.
SetRules(list) ==
    /\ ruleList' = list /\ formRules' = ListText(list) /\ rawRules' = ListText(list)

AddRule ==
    /\ Editing("visual") /\ Len(ruleList) < MaxRules
    /\ SetRules(Append(ruleList, "blank"))
    /\ UNCHANGED <<ruleDialog, tab>>

RemoveRule(i) ==
    /\ Editing("visual") /\ i \in DOMAIN ruleList
    /\ SetRules(RemoveAt(ruleList, i))
    /\ UNCHANGED <<ruleDialog, tab>>

UpdateRule(i) ==
    /\ Editing("visual") /\ i \in DOMAIN ruleList
    /\ \E rule \in {"blank", "filled"} : SetRules([ruleList EXCEPT ![i] = rule])
    /\ UNCHANGED <<ruleDialog, tab>>

\* handleRawJsonChange: parseRules never throws, so that a text that is no JSON
\* empties the form's list.
TypeRaw(text) ==
    /\ Editing("json")
    /\ rawRules' = text /\ formRules' = ListText(Parsed(text))
    /\ UNCHANGED <<ruleDialog, ruleList, tab>>

\* handleTabChange.
ToVisual ==
    /\ Editing("json")
    /\ tab' = "visual"
    /\ SetRules(Parsed(rawRules))
    /\ UNCHANGED ruleDialog

ToJson ==
    /\ Editing("visual")
    /\ tab' = "json" /\ rawRules' = ListText(ruleList)
    /\ UNCHANGED <<ruleDialog, formRules, ruleList>>

RuleNext ==
    \/ \E text \in RuleTexts : TypeRules(text) \/ TypeRaw(text)
    \/ \E rules \in RuleTexts \ {Text("noJSON")} : OpenHook(rules)
    \/ \E i \in 1..MaxRules : RemoveRule(i) \/ UpdateRule(i)
    \/ CloseHook \/ ToggleEditor \/ AddRule \/ ToVisual \/ ToJson
    \/ SubmitRules \/ RulesAnswered

RuleSpec == RuleInit /\ [][RuleNext]_ruleVars

-------------------------------------------------------------------------------
RulesShown == IF tab = "visual" THEN ruleList ELSE Parsed(rawRules)

\* A save stores exactly the rules the editor shows, through its three copies of
\* them and whichever tab was used last.  The exception is a form whose text was
\* no plain list when the editor was opened and has not been touched since: the
\* editor shows what rules it could make of it, which is none of a mapping, and a
\* save would keep the text.  (The first change, and even a look at the JSON tab
\* and back, replaces it by the list shown.)  A dialog opened with the editor left
\* open may show the rules of the webhook before.
EditorHoldsForm ==
    (dialogOpen /\ editorOpen /\ ~remounted) =>
        \/ formRules = ListText(RulesShown)
        \/ /\ formRules.kind # "list"
           /\ ruleList = Parsed(formRules) /\ rawRules = ListText(ruleList)
===============================================================================
