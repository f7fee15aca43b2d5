------------------------------- MODULE CronForm --------------------------------
(***************************************************************************)
(* The cron job dialog: CronJobDialog.tsx with CronExpressionBuilder.tsx   *)
(* and the debounced previews they ask the server for.                     *)
(*                                                                         *)
(* Of a schedule only one field's token is kept, by its form: every "*",   *)
(* step "*/n", specific "n" or a list, range "a-b", ranges "a-b,c-d",      *)
(* clipped "a-b,c", short (fewer than five fields) and invalid; a cleared  *)
(* schedule is empty.                                                      *)
(***************************************************************************)
EXTENDS Naturals, FiniteSets

CONSTANTS Tokens,        \* schedules that rows have and admins type
          MaxDrafts      \* bound: changes of the schedule

ASSUME CronAssumption ==
    /\ Tokens \subseteq {"every", "step", "specific", "range", "ranges", "short", "invalid"}
    /\ "specific" \in Tokens
    /\ MaxDrafts \in Nat

VARIABLES jobOpen,       \* CronJobDialog: open
          jobSchedule,   \* the schedule of the row the dialog has, or the default
          schedule,      \* form field schedule
          building,      \* the builder's tab is shown
          timer,         \* a preview is due
          previews,      \* schedules whose preview is under way
          verdict,       \* scheduleValid with the schedule it is about
          jobSave,       \* the schedule being saved
          drafts,        \* changes so far
          crossed        \* history: the last preview was sent with one under way

cronVars == <<jobOpen, jobSchedule, schedule, building, timer, previews, verdict, jobSave,
              drafts, crossed>>

Nothing == "none"
Empty == "empty"
Schedules == Tokens \cup {"every", "clipped", Empty}
NoVerdict == [about |-> Nothing, valid |-> FALSE]

CronTypeOK ==
    /\ jobOpen \in BOOLEAN /\ building \in BOOLEAN /\ timer \in BOOLEAN /\ crossed \in BOOLEAN
    /\ jobSchedule \in Schedules /\ schedule \in Schedules
    /\ previews \subseteq Schedules
    /\ verdict.about \in Schedules \cup {Nothing} /\ verdict.valid \in BOOLEAN
    /\ jobSave \in Schedules \cup {Nothing} /\ drafts \in 0..MaxDrafts

\* The default schedule is set when the page is shown, and so is its preview.
CronInit ==
    /\ jobOpen = FALSE /\ jobSchedule = "specific" /\ schedule = "specific"
    /\ building = FALSE /\ timer = TRUE /\ previews = {} /\ verdict = NoVerdict
    /\ jobSave = Nothing /\ drafts = 0 /\ crossed = FALSE

\* What the builder makes of a schedule: parseFieldToken splits at the dashes
\* and keeps two parts, parseCronExpression fills in missing fields; an empty
\* schedule is "* * * * *" to it.
Rebuilt(token) == CASE token = "ranges" -> "clipped"
                    [] token = "short" -> "specific"
                    [] token = Empty -> "every"
                    [] OTHER -> token

\* A token the cron library accepts.
ValidToken(token) == token \notin {"short", "invalid", Empty}

Draft == drafts < MaxDrafts /\ drafts' = drafts + 1

\* Mutant: no preview is asked for.
SetScheduleOnly(token) == schedule' = token /\ UNCHANGED timer

\* The form's schedule is set; a change cancels the timer and starts another, but
\* an empty schedule none: what was shown of the one before stays.
SetSchedule(token) ==
    /\ schedule' = token
    /\ timer' = (token # Empty /\ (timer \/ token # schedule))

-------------------------------------------------------------------------------
\* Opened for a row, or for a new job: the form is reset, the verdict forgotten.
OpenJob(token) ==
    /\ ~jobOpen /\ Draft
    /\ jobOpen' = TRUE /\ jobSchedule' = token /\ building' = FALSE
    /\ SetSchedule(token)
    /\ verdict' = NoVerdict
    /\ UNCHANGED <<previews, jobSave, crossed>>

\* Closed by any means: reset as well, to the row it has.
ResetJob ==
    /\ jobOpen' = FALSE /\ building' = FALSE
    /\ SetSchedule(jobSchedule)
    /\ verdict' = NoVerdict

CloseJob ==
    /\ jobOpen
    /\ ResetJob
    /\ UNCHANGED <<jobSchedule, previews, jobSave, drafts, crossed>>

\* handlePresetSelect, or the text of the custom tab.
TypeSchedule(token) ==
    /\ jobOpen /\ ~building /\ Draft
    /\ SetSchedule(token)
    /\ UNCHANGED <<jobOpen, jobSchedule, building, previews, verdict, jobSave, crossed>>

\* The builder's tab is shown: the builder parses the schedule, and its first
\* effect puts what it builds into the form.
ShowBuilder ==
    /\ jobOpen /\ ~building
    /\ building' = TRUE
    /\ SetSchedule(Rebuilt(schedule))
    /\ UNCHANGED <<jobOpen, jobSchedule, previews, verdict, jobSave, drafts, crossed>>

LeaveBuilder ==
    /\ building
    /\ building' = FALSE
    /\ UNCHANGED <<jobOpen, jobSchedule, schedule, timer, previews, verdict, jobSave, drafts,
                   crossed>>

\* updateField, applyPreset, handleNaturalLanguage: a field that is not filled
\* in counts as "*".
BuildSchedule(token) ==
    /\ building /\ Draft
    /\ \/ SetSchedule(token)
       \/ SetSchedule("every")
    /\ UNCHANGED <<jobOpen, jobSchedule, building, previews, verdict, jobSave, crossed>>

-------------------------------------------------------------------------------
(* The preview, also while the dialog is closed.                           *)

\* After the delay: a call that is still under way is not cancelled.
AskPreview ==
    /\ timer
    /\ timer' = FALSE
    /\ previews' = previews \cup {schedule}
    /\ crossed' = (previews # {})
    /\ UNCHANGED <<jobOpen, jobSchedule, schedule, building, verdict, jobSave, drafts>>

\* Any answer sets the verdict; a call that fails counts as invalid.
ShowPreview(token) ==
    /\ token \in previews
    /\ previews' = previews \ {token}
    /\ verdict' \in {[about |-> token, valid |-> ValidToken(token)],
                     [about |-> token, valid |-> FALSE]}
    /\ UNCHANGED <<jobOpen, jobSchedule, schedule, building, timer, jobSave, drafts, crossed>>

-------------------------------------------------------------------------------
(* Saving.                                                                 *)

\* onSubmit, after the schema's check that there is a schedule: the button waits
\* for a verdict of "invalid" to go.
SubmitJob ==
    /\ jobOpen /\ jobSave = Nothing /\ schedule # Empty
    /\ verdict = NoVerdict \/ verdict.valid
    /\ jobSave' = schedule
    /\ UNCHANGED <<jobOpen, jobSchedule, schedule, building, timer, previews, verdict, drafts,
                   crossed>>

\* The server refuses a schedule that is not valid; a success closes whichever
\* dialog is open by now.
JobSaved ==
    /\ jobSave # Nothing /\ ValidToken(jobSave)
    /\ jobSave' = Nothing
    /\ IF jobOpen THEN ResetJob
                  ELSE UNCHANGED <<jobOpen, building, schedule, timer, verdict>>
    /\ UNCHANGED <<jobSchedule, previews, drafts, crossed>>

JobNotSaved ==
    /\ jobSave # Nothing
    /\ jobSave' = Nothing
    /\ UNCHANGED <<jobOpen, jobSchedule, schedule, building, timer, previews, verdict, drafts,
                   crossed>>

CronNext ==
    \/ \E token \in Tokens : OpenJob(token) \/ BuildSchedule(token)
    \/ \E token \in Tokens \cup {Empty} : TypeSchedule(token)
    \/ \E token \in Schedules : ShowPreview(token)
    \/ CloseJob \/ ShowBuilder \/ LeaveBuilder \/ AskPreview
    \/ SubmitJob \/ JobSaved \/ JobNotSaved

CronSpec == CronInit /\ [][CronNext]_cronVars

-------------------------------------------------------------------------------
\* What the dialog says of a schedule, and what disables its button, is about the
\* schedule it holds, once no preview is due or under way: of previews that
\* overlap the last one to be answered would decide, and only those.  A schedule
\* that is cleared is not previewed, so that the verdict of the one before stays
\* beside the empty field; the next text typed, also the former one, is.
VerdictIsCurrent ==
    (~timer /\ previews = {} /\ ~crossed /\ schedule # Empty) =>
        verdict.about \in {Nothing, schedule}
===============================================================================
