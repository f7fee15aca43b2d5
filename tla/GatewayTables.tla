----------------------------- MODULE GatewayTables -----------------------------
(***************************************************************************)
(* The admin page with its tabs, the tables of users, channels, webhooks,  *)
(* cron jobs and sessions with their hooks of useGateway.ts, the dialogs   *)
(* that write a row, and the endpoints they call.  A row is absent, off or *)
(* on: whether it is enabled, whether a user is an admin, or which of two  *)
(* lists of tools a session has.                                           *)
(*                                                                         *)
(* The hooks send a list call whenever their filters change and after      *)
(* writes; answers are taken in the order they arrive.  Tabs that are not  *)
(* shown are not mounted: only the open table has a state.                 *)
(***************************************************************************)
EXTENDS Naturals, FiniteSets

CONSTANTS Rows,          \* ids of channels, webhooks, cron jobs or sessions
          NoRow,
          MaxAsks,       \* bound: list calls under way at a time
          MaxWrites      \* bound: writes, of this admin and of others, and failed calls

ASSUME TablesAssumption ==
    /\ NoRow \notin Rows
    /\ MaxAsks \in Nat \ {0, 1} /\ MaxWrites \in Nat

VARIABLES table,         \* the open table, once the user is known to be an admin
          tabsShown,     \* GatewayManagement: no metricsError
          rows,          \* the server's rows
          listed,        \* the rows in the hook's state
          onlyEnabled,   \* enabledFilter: "Enabled only", sent to the server
          asks,          \* list calls: stage, filter, and the rows read
          listFailed,    \* the hook's error: the table shows nothing but a retry
          form,          \* the open dialog or edited user: row, switch, token, step
          savingId,      \* UsersTable: the user whose save button is disabled
          writes,        \* writes: operation, row, value, filter, who awaits it, stage
          written,       \* writes sent so far
          troubles,      \* troubles so far
          behind         \* history: the list may differ from the rows

tableList == <<listed, onlyEnabled, asks, listFailed>>
tableWork == <<form, savingId, writes, written>>
openTab == <<table, tabsShown>>
tableVars == <<openTab, rows, tableList, tableWork, troubles, behind>>

GatewayTabs == {"channels", "webhooks", "cronJobs", "sessions"}
Tables == GatewayTabs \cup {"users"}
Asks == 1..MaxAsks
Writes == 1..MaxWrites
NoRows == [r \in Rows |-> "absent"]
NoAsk == [stage |-> "none", onlyEnabled |-> FALSE, rows |-> NoRows]
NoWrite == [op |-> "none", row |-> NoRow, value |-> "on", onlyEnabled |-> FALSE,
            by |-> "dialog", stage |-> "none"]
NoForm == [kind |-> "closed", row |-> NoRow, value |-> "on", base |-> "on",
           token |-> FALSE, step |-> 0]
LastStep == 3            \* TOTAL_STEPS - 1 of ChannelConfigWizard

AskedNow == {i \in Asks : asks[i].stage # "none"}
WritingNow == {i \in Writes : writes[i].stage # "none"}
Unused == {r \in Rows : rows[r] = "absent"}

TablesTypeOK ==
    /\ table \in Tables \cup {"checking", "left"} /\ tabsShown \in BOOLEAN
    /\ rows \in [Rows -> {"absent", "off", "on"}]
    /\ listed \in [Rows -> {"absent", "off", "on"}]
    /\ onlyEnabled \in BOOLEAN /\ listFailed \in BOOLEAN /\ behind \in BOOLEAN
    /\ \A i \in Asks : /\ asks[i].stage \in {"none", "asked", "read"}
                       /\ asks[i].rows \in [Rows -> {"absent", "off", "on"}]
    /\ written \in 0..MaxWrites /\ troubles \in 0..MaxWrites
    /\ form.kind \in {"closed", "dialog", "wizard", "confirm"}
    /\ form.row \in Rows \cup {NoRow} /\ form.step \in 0..LastStep
    /\ form.token \in BOOLEAN /\ savingId \in Rows \cup {NoRow}
    /\ \A i \in Writes : /\ writes[i].stage \in {"none", "sent", "done", "refused"}
                         /\ writes[i].by \in {"dialog", "table", "nobody"}

Trouble == written + troubles < MaxWrites /\ troubles' = troubles + 1

FirstAsk == [i \in Asks |-> IF i = 1 THEN [NoAsk EXCEPT !.stage = "asked"] ELSE NoAsk]

TablesInit ==
    /\ table = "checking" /\ tabsShown = TRUE
    /\ rows \in [Rows -> {"absent", "on"}]
    /\ listed = NoRows /\ onlyEnabled = FALSE
    /\ asks = [i \in Asks |-> NoAsk] /\ listFailed = FALSE
    /\ form = NoForm /\ savingId = NoRow
    /\ writes = [i \in Writes |-> NoWrite] /\ written = 0
    /\ troubles = 0 /\ behind = TRUE

-------------------------------------------------------------------------------
(* The tabs.                                                               *)

\* A table is mounted, with the state it begins with, and fetches its list.
MountTable(a) ==
    /\ listed' = NoRows /\ onlyEnabled' = FALSE /\ listFailed' = FALSE
    /\ asks' = a
    /\ form' = NoForm /\ savingId' = NoRow
    /\ behind' = TRUE

\* useAdmin: the page shows the users to an admin and sends others away.
AdminKnown ==
    /\ table = "checking"
    /\ \/ table' = "users" /\ MountTable(FirstAsk)
       \/ table' = "left" /\ UNCHANGED <<tableList, form, savingId, behind>>
    /\ UNCHANGED <<tabsShown, rows, writes, written, troubles>>

\* Another tab, which an open dialog covers: its table may have any rows; what the
\* old one sent goes on unseen.
OpenTab(t) ==
    /\ table \in Tables \ {t} /\ (tabsShown \/ t = "users")
    /\ form.kind = "closed" \/ listFailed \/ table = "users"
    /\ table' = t /\ tabsShown' = TRUE
    /\ MountTable(FirstAsk)
    /\ rows' \in [Rows -> {"absent", "on"}]
    /\ writes' = [i \in Writes |-> NoWrite]
    /\ UNCHANGED <<written, troubles>>

\* The metrics are asked for every five seconds: one failure takes all gateway
\* tabs off the page, with the dialogs that are open ...
PollFails ==
    /\ table \in GatewayTabs /\ tabsShown /\ Trouble
    /\ tabsShown' = FALSE
    /\ MountTable([i \in Asks |-> NoAsk])
    /\ writes' = [i \in Writes |-> IF writes[i].stage = "sent"
                                     THEN [writes[i] EXCEPT !.by = "nobody"] ELSE NoWrite]
    /\ UNCHANGED <<table, rows, written>>

\* ... until the next poll begins.
PollAgain ==
    /\ ~tabsShown
    /\ tabsShown' = TRUE
    /\ MountTable(FirstAsk)
    /\ UNCHANGED <<table, rows, writes, written, troubles>>

-------------------------------------------------------------------------------
(* The hook.                                                               *)

\* Up to n more list calls in a (as many as the bound has room for).  Answers to
\* calls that overlap may arrive in any order.
Started(a, n, filter) ==
    LET free == {i \in Asks : a[i].stage = "none"}
    IN [i \in Asks |-> IF i \in free /\ Cardinality({j \in free : j < i}) < n
                         THEN [NoAsk EXCEPT !.stage = "asked", !.onlyEnabled = filter]
                         ELSE a[i]]

\* n fetches are started with the filter of the rendering they come from.
Fetch(n, filter) ==
    /\ AskedNow # Asks
    /\ asks' = Started(asks, n, filter)
    /\ listFailed' = FALSE
    /\ behind' = (behind \/ AskedNow # {} \/ n > 1 \/ filter # onlyEnabled)

\* GET /channels, /webhooks, /cron-jobs, /sessions or /users.
ReadRows(i) ==
    /\ asks[i].stage = "asked"
    /\ asks' = [asks EXCEPT ![i] = [@ EXCEPT
                   !.stage = "read",
                   !.rows = [r \in Rows |-> IF asks[i].onlyEnabled /\ rows[r] = "off" THEN "absent" ELSE rows[r]]]]
    /\ behind' = (behind /\ ~(AskedNow = {i} /\ asks[i].onlyEnabled = onlyEnabled))
    /\ UNCHANGED <<openTab, rows, listed, onlyEnabled, listFailed, tableWork, troubles>>

\* The rows replace the list.  A filter is a new object at every rendering, and
\* a new filter a reason to fetch: the rendering with the rows fetches, the one
\* with loading set fetches again.
ListRows(i) ==
    /\ asks[i].stage = "read"
    /\ listed' = asks[i].rows
    /\ asks' = Started([asks EXCEPT ![i] = NoAsk], IF onlyEnabled THEN 2 ELSE 0, TRUE)
    /\ behind' = (behind \/ onlyEnabled)
    /\ listFailed' = (listFailed /\ ~onlyEnabled)
    /\ UNCHANGED <<openTab, rows, onlyEnabled, tableWork, troubles>>

\* A list call fails: the table gives way to the error, and an open dialog is
\* begun anew when it is back.  UsersTable says so and lists nobody.
ListFails(i) ==
    /\ asks[i].stage # "none" /\ Trouble
    /\ asks' = [asks EXCEPT ![i] = NoAsk]
    /\ listFailed' = (table # "users") /\ behind' = TRUE
    /\ form' = [form EXCEPT !.value = form.base, !.token = FALSE, !.step = 0]
    /\ writes' = [w \in Writes |-> [writes[w] EXCEPT !.by = IF @ = "dialog" THEN "table" ELSE @]]
    /\ UNCHANGED <<openTab, rows, listed, onlyEnabled, savingId, written>>

\* The retry button of the error.
RetryList ==
    /\ listFailed
    /\ Fetch(1, onlyEnabled)
    /\ UNCHANGED <<openTab, rows, listed, onlyEnabled, tableWork, troubles>>

\* The "Enabled only" switch of the tables that have one.
FilterEnabled ==
    /\ table \in {"webhooks", "cronJobs"} /\ tabsShown /\ ~listFailed
    /\ form.kind = "closed"
    /\ onlyEnabled' = ~onlyEnabled
    /\ Fetch(IF onlyEnabled THEN 1 ELSE 2, ~onlyEnabled)
    /\ UNCHANGED <<openTab, rows, listed, tableWork, troubles>>

-------------------------------------------------------------------------------
(* Writes: sent by a dialog or by a row's menu, handled, answered.         *)

SendWrite(op, r, value) ==
    /\ written + troubles < MaxWrites
    /\ written' = written + 1
    /\ writes' = [writes EXCEPT ![written'] =
                    [op |-> op, row |-> r, value |-> value,
                     onlyEnabled |-> onlyEnabled, by |-> "dialog", stage |-> "sent"]]

\* What the server makes of a write: a row that is gone, or a channel that
\* sessions refer to, refuses it.
Handled(w) ==
    \/ /\ w.op \in {"create", "wizard"}
       /\ \E r \in Unused : rows' = [rows EXCEPT ![r] = w.value]
    \/ /\ w.op = "delete" /\ rows[w.row] # "absent"
       /\ rows' = [rows EXCEPT ![w.row] = "absent"]
    \/ /\ w.op \in {"update", "toggle"} /\ rows[w.row] # "absent"
       /\ rows' = [rows EXCEPT ![w.row] = w.value]
    \/ /\ w.op \in {"execute", "archive"} /\ rows[w.row] # "absent"
       /\ UNCHANGED rows

Refused(w) ==
    /\ IF w.op \in {"create", "wizard"} THEN Unused = {}
       ELSE rows[w.row] = "absent" \/ (table = "channels" /\ w.op = "delete")
    /\ UNCHANGED rows

\* Mutant: nor does a deletion.
NoFetchOfDeletion(w) == w.op = "delete" \/ table = "users"

\* ChannelDialog is given no onSuccess, and UsersTable changes its own list:
\* neither fetches after a save.
NoFetch(w) == \/ table = "channels" /\ w.op \in {"create", "update"}
              \/ table = "users"

HandleWrite(i) ==
    /\ writes[i].stage = "sent"
    /\ \E stage \in {"done", "refused"} :
         /\ IF stage = "done" THEN Handled(writes[i]) ELSE Refused(writes[i])
         /\ writes' = [writes EXCEPT ![i] = IF @.by = "nobody" THEN NoWrite
                                            ELSE [@ EXCEPT !.stage = stage]]
    /\ behind' = (behind \/ writes[i].by = "nobody"
                         \/ (table = "channels" /\ NoFetch(writes[i])))
    /\ UNCHANGED <<openTab, tableList, form, savingId, written, troubles>>

\* What a write leaves open: the dialogs close what is open when it succeeds,
\* the confirmation of a deletion either way.
FormAfter(w) ==
    IF (w.op \in {"create", "wizard", "update"} /\ w.stage = "done")
         \/ (w.op = "delete" /\ table = "channels")
      THEN NoForm ELSE form

\* Answered: the list is fetched again after a success, and that of the users
\* changed to what was sent.
Written(i) ==
    /\ writes[i].stage \in {"done", "refused"}
    /\ IF writes[i].stage = "done" /\ ~NoFetch(writes[i])
         THEN Fetch(1, writes[i].onlyEnabled)
         ELSE UNCHANGED <<asks, listFailed, behind>>
    /\ listed' = IF table = "users" /\ writes[i].stage = "done"
                   THEN [listed EXCEPT ![writes[i].row] = writes[i].value] ELSE listed
    /\ form' = FormAfter(writes[i])
    /\ savingId' = NoRow
    /\ writes' = [writes EXCEPT ![i] = NoWrite]
    /\ UNCHANGED <<openTab, rows, onlyEnabled, written, troubles>>

\* The call throws, whether it was handled or not.
WriteFails(i) ==
    /\ writes[i].stage # "none" /\ writes[i].by # "nobody" /\ Trouble
    /\ form' = FormAfter([writes[i] EXCEPT !.stage = "refused"])
    /\ savingId' = NoRow
    /\ writes' = [writes EXCEPT ![i] = NoWrite]
    /\ behind' = (behind \/ writes[i].stage = "done")
    /\ UNCHANGED <<openTab, rows, tableList, written>>

-------------------------------------------------------------------------------
(* The tables' row menus.                                                  *)

\* The buttons of a dialog that is saving, or deleting, are disabled.
Writing(ops) == \E i \in WritingNow : writes[i].op \in ops /\ writes[i].by = "dialog"

\* Nothing covers the table.
AtTable == ~listFailed /\ form.kind = "closed"
FromMenu(r) == AtTable /\ listed[r] # "absent"

\* A dialog gets the row as it is listed.
RowForm(r) == [NoForm EXCEPT !.kind = "dialog", !.row = r, !.value = listed[r], !.base = listed[r]]
EditRow(r) == form' = RowForm(r) /\ UNCHANGED <<savingId, writes, written>>

FromRow(op, r, value) == SendWrite(op, r, value) /\ UNCHANGED <<form, savingId>>

\* handleEdit; handleDelete asks first, in a dialog.
ChannelsMenu(r) ==
    /\ table = "channels" /\ FromMenu(r)
    /\ \/ EditRow(r)
       \/ /\ ~Writing({"delete"})
          /\ form' = [NoForm EXCEPT !.kind = "confirm", !.row = r]
          /\ UNCHANGED <<savingId, writes, written>>
    /\ UNCHANGED <<openTab, rows, tableList, troubles, behind>>

\* handleEdit; handleDelete, after confirm().
WebhooksMenu(r) ==
    /\ table = "webhooks" /\ FromMenu(r)
    /\ EditRow(r) \/ FromRow("delete", r, "on")
    /\ UNCHANGED <<openTab, rows, tableList, troubles, behind>>

\* handleEdit, handleDelete; handlePauseResume does what the listed row is not;
\* handleExecuteNow.  Nothing is disabled meanwhile.
CronMenu(r) ==
    /\ table = "cronJobs" /\ FromMenu(r)
    /\ \/ EditRow(r)
       \/ FromRow("delete", r, "on")
       \/ FromRow("toggle", r, IF listed[r] = "on" THEN "off" ELSE "on")
       \/ FromRow("execute", r, "on")
    /\ UNCHANGED <<openTab, rows, tableList, troubles, behind>>

\* handleEditTools; handleArchive, after confirm(): the row stays listed.
SessionsMenu(r) ==
    /\ table = "sessions" /\ FromMenu(r)
    /\ EditRow(r) \/ FromRow("archive", r, "on")
    /\ UNCHANGED <<openTab, rows, tableList, troubles, behind>>

-------------------------------------------------------------------------------
(* The dialogs.                                                            *)

FormChanges == UNCHANGED <<openTab, rows, tableList, savingId, writes, written, troubles, behind>>
FormSends == UNCHANGED <<openTab, rows, tableList, troubles, behind>>

\* handleConfirmDelete of ChannelsTable: isDeleting disables its buttons.
ConfirmDelete ==
    /\ form.kind = "confirm" /\ ~listFailed /\ ~Writing({"delete"})
    /\ FromRow("delete", form.row, "on")
    /\ FormSends

\* handleAddChannel, handleAddWebhook, handleAddCronJob.
AddRow ==
    /\ table \in {"channels", "webhooks", "cronJobs"} /\ tabsShown /\ AtTable
    /\ form' = [NoForm EXCEPT !.kind = "dialog"]
    /\ FormChanges

\* A change of a field of a dialog, whichever it is.
Flipped == [form EXCEPT !.value = IF @ = "on" THEN "off" ELSE "on"]

\* The fields of a dialog, the enabled switch among them.
Toggle ==
    /\ table \in {"channels", "webhooks", "cronJobs"} /\ ~listFailed
    /\ form.kind = "dialog"
    /\ form' = Flipped
    /\ FormChanges

\* ToolAllowlistEditor: patterns added and removed.
ChangeTools ==
    /\ table = "sessions" /\ ~listFailed /\ form.kind = "dialog"
    /\ form' = Flipped
    /\ FormChanges

\* onSubmit of the dialogs: the whole row; isSaving disables the button.
SubmitForm ==
    /\ table \in {"channels", "webhooks", "cronJobs"} /\ ~listFailed
    /\ form.kind = "dialog" /\ ~Writing({"create", "update"})
    /\ FromRow(IF form.row = NoRow THEN "create" ELSE "update", form.row, form.value)
    /\ FormSends

\* onSubmit of ToolAllowlistEditor: both lists, whatever the server has by now.
SubmitTools ==
    /\ table = "sessions" /\ ~listFailed
    /\ form.kind = "dialog" /\ ~Writing({"update"})
    /\ FromRow("update", form.row, form.value)
    /\ FormSends

\* Cancel, Escape or a click beside it; a confirmation under way stays.
CloseForm ==
    /\ form.kind # "closed"
    /\ form.kind = "confirm" => ~Writing({"delete"})
    /\ form' = NoForm
    /\ FormChanges

-------------------------------------------------------------------------------
(* ChannelConfigWizard.                                                    *)

OpenWizard ==
    /\ table = "channels" /\ tabsShown /\ AtTable
    /\ form' = [NoForm EXCEPT !.kind = "wizard"]
    /\ FormChanges

AtStep(n) == form.kind = "wizard" /\ form.step = n /\ ~listFailed

\* applyTemplate, which enables the channel; handlePlatformSelect leaves that alone.
ApplyTemplate ==
    /\ AtStep(0)
    /\ form' = [form EXCEPT !.value = "on"]
    /\ FormChanges

EnterToken ==
    /\ AtStep(1)
    /\ form' = [form EXCEPT !.token = ~@]
    /\ FormChanges

SwitchNewChannel == AtStep(2) /\ form' = Flipped /\ FormChanges

\* handleNext, which validates its step, and handleBack.
StepWizard ==
    /\ form.kind = "wizard" /\ ~listFailed
    /\ \/ /\ form.step < LastStep /\ (form.step = 1 => form.token)
          /\ form' = [form EXCEPT !.step = @ + 1]
       \/ /\ form.step > 0
          /\ form' = [form EXCEPT !.step = @ - 1]
    /\ FormChanges

\* handleCreate.
CreateByWizard ==
    /\ AtStep(LastStep) /\ form.token /\ ~Writing({"wizard"})
    /\ FromRow("wizard", NoRow, form.value)
    /\ FormSends

-------------------------------------------------------------------------------
(* UsersTable, whose rows are edited in place.                             *)

\* startEditing, also with another user being edited.
EditUser(r) ==
    /\ table = "users" /\ listed[r] # "absent" /\ form.row # r
    /\ form' = RowForm(r)
    /\ FormChanges

\* handleInputChange.
ChangeUser ==
    /\ table = "users" /\ form.kind = "dialog"
    /\ form' = Flipped
    /\ FormChanges

\* saveChanges: only the button of the user saved last is disabled.
SaveUser ==
    /\ table = "users" /\ form.kind = "dialog" /\ savingId # form.row
    /\ SendWrite("update", form.row, form.value)
    /\ savingId' = form.row
    /\ behind' = (behind \/ \E i \in WritingNow : writes[i].row = form.row)
    /\ UNCHANGED <<openTab, rows, tableList, form, troubles>>

-------------------------------------------------------------------------------
\* Another admin, the scheduler or a write whose tab was left changes a row.
OtherAdmin ==
    /\ Trouble
    /\ \E r \in Rows, v \in {"absent", "off", "on"} : rows' = [rows EXCEPT ![r] = v]
    /\ behind' = TRUE
    /\ UNCHANGED <<openTab, tableList, tableWork>>

TablesNext ==
    \/ \E i \in Asks : ReadRows(i) \/ ListRows(i) \/ ListFails(i)
    \/ \E i \in Writes : HandleWrite(i) \/ Written(i) \/ WriteFails(i)
    \/ \E r \in Rows : ChannelsMenu(r) \/ WebhooksMenu(r) \/ CronMenu(r) \/ SessionsMenu(r)
    \/ \E r \in Rows : EditUser(r)
    \/ \E t \in Tables : OpenTab(t)
    \/ AdminKnown \/ PollFails \/ PollAgain \/ ChangeUser \/ SaveUser
    \/ ApplyTemplate \/ EnterToken \/ SwitchNewChannel
    \/ RetryList \/ FilterEnabled \/ ConfirmDelete \/ AddRow \/ Toggle \/ ChangeTools
    \/ SubmitForm \/ SubmitTools \/ OpenWizard \/ StepWizard \/ CreateByWizard
    \/ CloseForm \/ OtherAdmin

TablesSpec == TablesInit /\ [][TablesNext]_tableVars

-------------------------------------------------------------------------------
\* Once its calls are answered the table lists the rows the server has: every
\* write of this admin is followed by a fetch or, of a user, by the same change,
\* unless one failed, calls overlapped, somebody else wrote, or the channel
\* dialog saved.
TableIsCurrent ==
    (AskedNow = {} /\ WritingNow = {} /\ ~listFailed /\ ~behind) => listed = rows
===============================================================================
