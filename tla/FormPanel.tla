----------------------------- MODULE FormPanel ------------------------------
(***************************************************************************)
(* One form of the web application, from what its user types to what the   *)
(* server has: the panel that it is in, a field, the fetcher that submits  *)
(* it, the errors of the answer and the data of the query that the field   *)
(* starts from.  The form is any one of AppForms and the field any kind of *)
(* field that it has; both are chosen by the initial state.                *)
(*                                                                         *)
(* Another user may write the same data once, with the same form.  What    *)
(* React does with an input and React Router with a fetcher is modelled    *)
(* from its use here.                                                      *)
(***************************************************************************)
EXTENDS AppForms

CONSTANTS
  Names,    \* the forms to follow
  Tries     \* how many times the user types something, at most

ASSUME FormBounds == Names \subseteq DOMAIN Component /\ Tries \in Nat

VARIABLES
  name, field,  \* the form, and the kind of field that is followed
  server,       \* the data of the server: its value, the change that is pending, and
                \* whether the rest of the page's data changed
  shown,        \* the same, as the query of the page last had it
  box,          \* what the field holds, and whether the user typed it
  panel,        \* "open", "closed", or "gone" with the page
  fetcher,      \* its state, and the answer that it last had
  request,      \* the request in flight: its kind, its value, what the server did
  discarding,   \* whether the button beside an item discards its pending change
  errors,       \* whether the errors of an answer are in the state of the form
  typed,        \* what the user typed and neither gave up nor saved, or Nothing
  dismissed,    \* whether the user closed or cancelled the form at rest since the last answer
  tries, others, \* how often the user typed, and others wrote
  saved         \* whether what the field holds was created

setting == <<name, field>>
input   == <<box, panel, errors, typed, dismissed>>
data    == <<server, shown>>
io      == <<fetcher, request, discarding>>
bounds  == <<tries, others, saved>>
formVars == <<setting, input, data, io, bounds>>

this == Component[name]

Nothing == "nothing"
Drafts  == {"a", "b"}
Values  == {"start", "theirs"} \cup Drafts

Fresh == [state |-> "idle", answer |-> "none", sent |-> Nothing]

NoRequest == [kind |-> "none", value |-> Nothing, done |-> "no"]

\* The value of the data: the pending change when there is one.
Current(d) == IF d.change = Nothing THEN d.value ELSE d.change

\* What the field shows: an input that the user did not touch follows its default
\* value, a copy in the state of the component does not.
Shown == IF field = "free" /\ ~box.dirty THEN Current(shown) ELSE box.value

Pending == fetcher.state # "idle"

\* What a pending change locks.
Locked(part) == this.locks = part /\ shown.change # Nothing

FormTypeOK ==
  /\ name \in Names /\ field \in this.fields
  /\ \A d \in {server, shown} : d.value \in Values /\ d.change \in Values \cup {Nothing}
  /\ box.value \in Values /\ box.dirty \in BOOLEAN
  /\ panel \in {"open", "closed", "gone"}
  /\ fetcher.state \in {"idle", "submitting", "loading"}
  /\ fetcher.answer \in {"none", "errors", "saved"}
  /\ request.done \in {"no", "saved", "errors"}
  /\ discarding \in BOOLEAN /\ saved \in BOOLEAN
  /\ errors \in BOOLEAN /\ typed \in Drafts \cup {Nothing} /\ dismissed \in BOOLEAN
  /\ panel = "closed" => this.panel # "inline"

FormInit ==
  /\ name \in Names /\ field \in this.fields
  /\ server = [value |-> "start", change |-> Nothing, rest |-> FALSE] /\ shown = server
  /\ box = [value |-> "start", dirty |-> FALSE]
  /\ panel = IF this.panel = "inline" THEN "open" ELSE "closed"
  /\ fetcher = Fresh
  /\ request = NoRequest /\ discarding = FALSE
  /\ errors = FALSE /\ typed = Nothing /\ dismissed = FALSE
  /\ tries = 0 /\ others = 0 /\ saved = FALSE

-----------------------------------------------------------------------------
\* What a handler of the form does, as a set of the words of AppForms.  A panel
\* whose content is unmounted loses what its inputs hold, and a row its whole state.

Closes(effects) == "close" \in effects /\ this.panel # "inline"
Unmounts(effects) == Closes(effects) /\ this.panel \in {"swapped", "accordion", "dialog", "row"}
Vanishes(effects) == Closes(effects) /\ this.panel = "row"

\* Whether they bring the field back to the data.
Restores(effects) ==
  \/ Vanishes(effects)
  \/ field = "free" /\ (Unmounts(effects) \/ "reset" \in effects)
  \/ field = "copy" /\ "sync" \in effects
  \/ field = "kept" /\ "syncKept" \in effects

\* The panel, the field, the errors and the fetcher, which was f, after the effects
\* with the data d on the page.
Effects(effects, d, f) ==
  /\ panel' = IF "leave" \in effects THEN "gone"
              ELSE IF Closes(effects) THEN "closed" ELSE panel
  /\ box' = IF Restores(effects) THEN [value |-> Current(d), dirty |-> FALSE] ELSE box
  /\ errors' = (errors /\ ~Vanishes(effects)
                /\ ("clear" \in effects => this.errors \notin {"effect", "callback"}))
  /\ fetcher' = IF Vanishes(effects) THEN Fresh ELSE f

-----------------------------------------------------------------------------
\* The user

\* A row is mounted when it is opened.
Open ==
  /\ panel = "closed" /\ ~Locked("opening")
  /\ panel' = "open"
  /\ box' = IF this.panel = "row" THEN [value |-> Current(shown), dirty |-> FALSE] ELSE box
  /\ UNCHANGED <<setting, errors, typed, dismissed, data, io, bounds>>

Type ==
  /\ panel = "open" /\ ~Locked("inputs") /\ field # "none" /\ tries < Tries
  /\ \E v \in Drafts :
       /\ v # Shown
       /\ box' = [value |-> v, dirty |-> TRUE] /\ typed' = v
  /\ tries' = tries + 1 /\ saved' = FALSE
  /\ UNCHANGED <<setting, panel, errors, dismissed, data, io, others>>

\* A form that creates needs its required inputs, which are free ones.
Filled ==
  \/ field = "none"
  \/ field # "none" /\ IF this.creates /\ field # "free" THEN typed # Nothing
                       ELSE Shown # Current(shown)

\* The effects on the state of the fetcher copy the answer that it still has.  The
\* request of a row that was closed is waited for.
Start(kind, value) ==
  /\ this.guarded => SubmitButton(Pending)
  /\ this.panel = "row" => request = NoRequest
  /\ request' = [kind |-> kind, value |-> value, done |-> "no"]
  /\ fetcher' = [fetcher EXCEPT !.state = "submitting", !.sent = value]
  /\ errors' = IF this.errors = "effect" THEN fetcher.answer = "errors" ELSE errors

Submit ==
  /\ panel = "open" /\ ~Locked("inputs") /\ Filled
  /\ Start("save", Shown)
  /\ UNCHANGED <<setting, box, panel, typed, dismissed, data, discarding, bounds>>

\* The button that takes the place of the submit button while a change is pending.
DiscardHere ==
  /\ panel # "gone" /\ this.discards = "here" /\ shown.change # Nothing
  /\ Start("discard", Nothing)
  /\ UNCHANGED <<setting, box, panel, typed, dismissed, data, discarding, bounds>>

\* The button beside an item.
DiscardBeside ==
  /\ panel # "gone" /\ this.discards = "beside" /\ shown.change # Nothing
  /\ ~discarding
  /\ discarding' = TRUE
  /\ UNCHANGED <<setting, input, data, fetcher, request, bounds>>

Cancel ==
  /\ panel = "open" /\ this.onCancel # {}
  /\ this.cancelWaits => ~Pending
  /\ Effects(this.onCancel, shown, fetcher)
  /\ typed' = Nothing /\ dismissed' = (dismissed \/ ~Pending)
  /\ UNCHANGED <<setting, data, request, discarding, bounds>>

\* The panel is closed from outside of the form; a copy keeps its draft.
Close ==
  /\ panel = "open" /\ this.panel \in {"accordion", "dialog"}
  /\ this.closeWaits => ~Pending
  /\ LET effects == this.onClose \cup {"close"}
     IN  /\ Effects(effects, shown, fetcher)
         /\ typed' = IF Restores(effects) THEN Nothing ELSE typed
  /\ dismissed' = (dismissed \/ ~Pending)
  /\ UNCHANGED <<setting, data, request, discarding, bounds>>

-----------------------------------------------------------------------------
\* The server

\* The data once v is saved.
Saved(v) ==
  IF field = "none" \/ this.creates THEN server
  ELSE IF this.locks # "no" THEN [server EXCEPT !.change = v] ELSE [server EXCEPT !.value = v]

WithoutChange == [server EXCEPT !.change = Nothing]

Save ==
  /\ request.kind # "none" /\ request.done = "no"
  /\ request' = [request EXCEPT !.done = "saved"]
  /\ server' = IF request.kind = "discard" THEN WithoutChange ELSE Saved(request.value)
  /\ saved' = (this.creates /\ request.value = box.value)
  /\ UNCHANGED <<setting, input, shown, fetcher, discarding, tries, others>>

Reject ==
  /\ request.kind # "none" /\ request.done = "no"
  /\ request' = [request EXCEPT !.done = "errors"]
  /\ UNCHANGED <<setting, input, data, fetcher, discarding, bounds>>

\* Another user saves a value, discards the pending change, or changes something else.
OtherUser ==
  /\ others < 1
  /\ server' \in {Saved("theirs"), WithoutChange, [server EXCEPT !.rest = TRUE]}
  /\ server' # server
  /\ others' = others + 1
  /\ UNCHANGED <<setting, input, shown, io, tries, saved>>

-----------------------------------------------------------------------------
\* The page

\* The effects of some forms depend on the data too: they run again on the answer
\* that the fetcher still has.
Rerun(d) ==
  IF \/ this.followsData = "no" \/ fetcher.answer = "none"
     \/ this.followsData = "value" /\ Current(d) = Current(shown)
  THEN UNCHANGED <<box, panel, errors, fetcher>>
  ELSE IF fetcher.answer = "saved" /\ ~Pending
  THEN Effects(this.onSuccess, d, fetcher)
  ELSE /\ errors' = IF this.errors = "effect" THEN fetcher.answer = "errors" ELSE errors
       /\ UNCHANGED <<box, panel, fetcher>>

Requery ==
  /\ panel # "gone" /\ shown # server
  /\ shown' = server
  /\ Rerun(server)
  /\ UNCHANGED <<setting, server, typed, dismissed, request, discarding, bounds>>

\* The action has waited for the refetch and returns its answer to the fetcher.
Return ==
  /\ request.done # "no" /\ fetcher.state = "submitting"
  /\ shown' = IF request.done = "saved" THEN server ELSE shown
  /\ fetcher' = [fetcher EXCEPT !.state = "loading", !.answer = request.done]
  /\ errors' = (this.errors # "none" /\ request.done = "errors")
  /\ request' = NoRequest /\ dismissed' = FALSE
  /\ UNCHANGED <<setting, box, panel, typed, server, discarding, bounds>>

\* The loaders have run: the effects on the idle fetcher act on a success.
Settle ==
  /\ fetcher.state = "loading"
  /\ LET idle == [fetcher EXCEPT !.state = "idle"]
     IN  IF fetcher.answer = "saved"
         THEN /\ Effects(this.onSuccess, shown, idle)
              /\ typed' = IF typed = fetcher.sent \/ Restores(this.onSuccess)
                             \/ Closes(this.onSuccess)
                          THEN Nothing ELSE typed
         ELSE /\ fetcher' = idle
              /\ errors' = IF this.errors = "effect" THEN TRUE ELSE errors
              /\ UNCHANGED <<box, panel, typed>>
  /\ UNCHANGED <<setting, dismissed, data, request, discarding, bounds>>

\* A row that was closed: its answer finds no component.
Forget ==
  /\ request.done # "no" /\ fetcher.state # "submitting"
  /\ request' = NoRequest /\ shown' = server
  /\ UNCHANGED <<setting, input, server, fetcher, discarding, bounds>>

Discarded ==
  /\ discarding
  /\ discarding' = FALSE
  /\ server' = WithoutChange /\ shown' = server'
  /\ Effects(this.onDiscard, server', fetcher)
  /\ typed' = IF Closes(this.onDiscard) THEN Nothing ELSE typed
  /\ UNCHANGED <<setting, dismissed, request, bounds>>

FormNext ==
  \/ Open \/ Type \/ Submit \/ DiscardHere \/ DiscardBeside \/ Cancel \/ Close
  \/ Save \/ Reject \/ OtherUser
  \/ Requery \/ Return \/ Settle \/ Forget \/ Discarded

FormSpec == FormInit /\ [][FormNext]_formVars

FormFairness ==
  /\ WF_formVars(Save \/ Reject) /\ WF_formVars(Return) /\ WF_formVars(Settle)
  /\ WF_formVars(Forget) /\ WF_formVars(Discarded)

-----------------------------------------------------------------------------
AtRest == ~Pending /\ panel # "gone"

\* Forms whose effect on an earlier success runs again when the data changes: it
\* resets the field, or closes the form, while the user types.
LoseDraft ==
  {"ServiceSourceForm", "ComposeStackUserContentForm", "NewServiceVariable",
   "AddEnvironmentVariable"}

\* What the user typed stays in the field until he gives it up or one of his
\* submissions is accepted: neither a refusal nor what other users do loses it.
DraftKept == typed # Nothing /\ panel # "gone" /\ name \notin LoseDraft => Shown = typed

\* Forms that keep the errors of an answer when they are closed.
KeepErrors ==
  {"NewServiceVariable", "ServiceCleanupQueueConfirmModal", "DeleteVariableConfirmationDialog",
   "ServicePortItem", "ServiceVolumeItem", "ServiceSharedVolumeItem", "ServiceURLFormItem",
   "ServiceConfigItem", "ServiceChangesModal", "ComposeStackChangesModal", "ServiceSourceForm"}

\* Errors that the user left, by cancelling or closing the form, are not shown when
\* it is opened again.
ErrorsLeft ==
  errors /\ dismissed /\ ~Pending /\ name \notin KeepErrors => panel # "open"

\* Copies that are not made again when the user cancels, or when the form creates.
KeepCopy ==
  {<<"ServiceSourceForm", "kept">>, <<"ServiceGitSourceForm", "kept">>,
   <<"NewServiceSharedVolumeForm", "copy">>}

\* Forms that close on a success without bringing these fields back: what the user
\* typed while the request was pending then passes for what was saved.
KeepLateText ==
  {<<"ServiceSlugForm", "free">>, <<"ComposeStackSlugForm", "free">>,
   <<"ServiceGitSourceForm", "free">>, <<"ServiceAutoDeployForm", "free">>,
   <<"ServiceAutoDeployForm", "copy">>, <<"ServiceVolumeItem", "copy">>,
   <<"ServiceSharedVolumeItem", "copy">>, <<"ServiceConfigItem", "copy">>}

\* At rest, with no draft and nothing written by others, the field shows the data:
\* after a success, a cancelled draft or a discarded change.
ShowsSaved ==
  AtRest /\ typed = Nothing /\ others = 0 /\ setting \notin KeepCopy \cup KeepLateText
    => Shown = Current(shown)

\* Forms that do not reset their inputs on a success, which then keep the saved text.
KeepText ==
  {"ProjectDetailsForm", "EnvironmentNameForm", "UpdateProfileForm", "ServiceSlugForm",
   "ServiceGitSourceForm", "ServiceAutoDeployForm", "ComposeStackSlugForm"}

\* A free field with no draft follows the data, also when others write it.
FollowsData ==
  AtRest /\ typed = Nothing /\ field = "free" /\ name \notin KeepText => Shown = Current(shown)

\* What a form created is not sent a second time, whenever it is submitted again.
NoSecondCreation == request.kind = "save" /\ request.done = "no" => ~saved

\* A form keeps what the user types, shows what is saved otherwise, and creates once.
PanelInv ==
  FormTypeOK /\ DraftKept /\ ErrorsLeft /\ ShowsSaved /\ FollowsData /\ NoSecondCreation

\* A form that opens closes, or leaves its page, once it is saved.
SavedCloses ==
  fetcher.state = "loading" /\ fetcher.answer = "saved" /\ panel = "open" /\ this.panel # "inline"
    ~> panel # "open"
=============================================================================
