------------------------------ MODULE AppForms ------------------------------
(***************************************************************************)
(* The forms of the web application, one operator per component of         *)
(* frontend app/routes and app/components, with what its handlers do:      *)
(*                                                                         *)
(*   panel      "inline"; or what opens and closes: "editing" (inputs are  *)
(*              disabled), "swapped", "accordion", "dialog" (what they     *)
(*              hold is unmounted), "row" (the component itself is);       *)
(*   fields     the kinds of fields: "free" (uncontrolled, with a default  *)
(*              value), "copy" and "kept" (a copy of the data in the state *)
(*              of the component, which "sync" and "syncKept" make again); *)
(*              "none" for a form that is only a button;                   *)
(*   guarded    whether the submit button does nothing while it is pending;*)
(*   errors     where the errors of an answer are: "answer" (read from the *)
(*              fetcher), "effect" (copied by an effect on the state and   *)
(*              the answer of the fetcher), "callback" (copied when the    *)
(*              answer changes) or "none";                                 *)
(*   locks      what the change that a success makes locks until it is     *)
(*              deployed or discarded: "no" (there is none), "inputs" (and *)
(*              the submit button) or "opening";                           *)
(*   discards   where that change is discarded: "no", "here" (same fetcher)*)
(*              or "beside" (the item has a fetcher for it);               *)
(*   creates    whether saving creates an item: the form then starts again *)
(*              from its empty value;                                      *)
(*   followsData  what else the effect on a success depends on: "no",      *)
(*              "value" (the data of the field) or "any" (an object that   *)
(*              each rendering makes anew);                                *)
(*   cancelWaits, closeWaits  whether they do nothing while it is pending; *)
(*   onSuccess, onCancel, onClose, onDiscard  what is done then, among     *)
(*              "close", "reset" (the inputs), "sync", "syncKept", "clear" *)
(*              (the copied errors) and "leave" (the page).  No cancel     *)
(*              button when onCancel is empty.                             *)
(*                                                                         *)
(* Labels, focus, toasts and the checks of the browser are left out.       *)
(***************************************************************************)
EXTENDS Naturals, Sequences

Form(kind, kinds) ==
  [panel |-> kind, fields |-> kinds, guarded |-> TRUE, errors |-> "answer",
   locks |-> "no", discards |-> "no", creates |-> FALSE, followsData |-> "no",
   cancelWaits |-> FALSE, closeWaits |-> FALSE,
   onSuccess |-> {}, onCancel |-> {}, onClose |-> {}, onDiscard |-> {}]

-----------------------------------------------------------------------------
\* Settings of a service

\* SubmitButton (ui/button.tsx): a click while it is pending is prevented.
SubmitButton(isPending) == ~isPending

\* useFetcherWithCallbacks: the errors are copied when the answer changes; its
\* callbacks run when the fetcher is idle again.
useFetcherWithCallbacks(f) == [f EXCEPT !.errors = "callback"]

\* A service change: locked, with its submit button replaced, until it is discarded.
LockedByChange(f) == [f EXCEPT !.locks = "inputs", !.discards = "here"]

ServiceSlugForm ==
  [Form("editing", {"free"})
   EXCEPT !.errors = "effect", !.onSuccess = {"close"},
          !.onCancel = {"reset", "close", "clear"}]

ServiceSourceForm ==
  [LockedByChange(Form("editing", {"copy", "kept"}))
   EXCEPT !.errors = "effect", !.followsData = "value", !.cancelWaits = TRUE,
          !.onSuccess = {"close", "sync", "syncKept"},
          !.onCancel = {"close", "reset", "sync", "clear"}]

ServiceGitSourceForm ==
  [LockedByChange(useFetcherWithCallbacks(Form("editing", {"free", "copy", "kept"})))
   EXCEPT !.cancelWaits = TRUE,
          !.onSuccess = {"close", "sync"},
          !.onCancel = {"close", "reset", "sync", "clear"}]

ServiceBuilderForm ==
  [LockedByChange(useFetcherWithCallbacks(Form("inline", {"free", "copy"})))
   EXCEPT !.onSuccess = {"reset", "sync"}, !.onCancel = {"reset", "sync", "clear"}]

ServiceCommandForm ==
  [LockedByChange(useFetcherWithCallbacks(Form("inline", {"free"})))
   EXCEPT !.onSuccess = {"reset"}, !.onCancel = {"reset", "clear"}]

ServiceHealthcheckForm ==
  [LockedByChange(useFetcherWithCallbacks(Form("inline", {"free", "copy"})))
   EXCEPT !.onSuccess = {"reset", "sync"}, !.onCancel = {"reset", "sync", "clear"}]

ServiceResourceLimits ==
  [LockedByChange(useFetcherWithCallbacks(Form("inline", {"copy"})))
   EXCEPT !.onSuccess = {"reset", "sync"}, !.onCancel = {"reset", "sync", "clear"}]

ServiceAutoDeployForm ==
  [Form("editing", {"free", "copy"})
   EXCEPT !.errors = "effect", !.cancelWaits = TRUE, !.onSuccess = {"close"},
          !.onCancel = {"close", "reset", "sync", "clear"}]

\* An item of a list of changes: its accordion is disabled while a change of the
\* item is pending; buttons beside it discard the change or delete the item.
ChangeItem(kinds) ==
  [useFetcherWithCallbacks(Form("accordion", kinds))
   EXCEPT !.locks = "opening", !.discards = "beside", !.onSuccess = {"reset", "close"},
          !.onCancel = {"reset", "sync", "clear"}, !.onDiscard = {"close"}]

ServicePortItem == [ChangeItem({"free"}) EXCEPT !.errors = "effect"]
ServiceVolumeItem == ChangeItem({"free", "copy"})
ServiceSharedVolumeItem == ChangeItem({"free", "copy"})
\* Its redirect toggle is the state of a checkbox of the library, left out.
ServiceURLFormItem == ChangeItem({"free"})
ServiceConfigItem ==
  [ChangeItem({"free", "copy"}) EXCEPT !.locks = "inputs", !.onDiscard = {"close", "sync"}]

NewChangeForm(kinds) ==
  [useFetcherWithCallbacks(Form("inline", kinds))
   EXCEPT !.creates = TRUE, !.onSuccess = {"reset", "sync"},
          !.onCancel = {"reset", "sync", "clear"}]

NewServicePortForm == NewChangeForm({"free"})
NewServiceVolumeForm == NewChangeForm({"free", "copy"})
NewServiceSharedVolumeForm ==
  [NewChangeForm({"free", "copy"}) EXCEPT !.onSuccess = {"reset"}]
NewServiceURLForm == NewChangeForm({"free"})
NewServiceConfigForm == NewChangeForm({"free", "copy"})

\* A button that regenerates the token of a URL, with its errors in a toast.
ServiceDeployURLForm == [Form("inline", {"none"}) EXCEPT !.errors = "none"]
ServicePreviewDeployURLForm == [Form("inline", {"none"}) EXCEPT !.errors = "none"]

-----------------------------------------------------------------------------
\* Dialogs that ask to confirm

\* With a text to type again; `closing' is done when the dialog is closed, by its
\* cancel button or from outside.
ConfirmDialog(kinds, source, closing) ==
  [Form("dialog", kinds)
   EXCEPT !.errors = source, !.onSuccess = {"reset", "close"},
          !.onCancel = closing \cup {"close"}, !.onClose = closing]

ArchiveServiceDialog == ConfirmDialog({"free"}, "effect", {"clear"})

ArchiveStackDialog ==
  [ConfirmDialog({"free"}, "effect", {"clear"})
   EXCEPT !.cancelWaits = TRUE, !.closeWaits = TRUE]

ArchiveProjectDialog ==
  [ConfirmDialog({"free"}, "effect", {"clear"}) EXCEPT !.closeWaits = TRUE]

EnvironmentDeleteFormDialog ==
  [ConfirmDialog({"free"}, "effect", {"clear"}) EXCEPT !.onSuccess = {"reset", "close", "leave"}]

DeleteTemplateDialog == ConfirmDialog({"free"}, "effect", {"clear"})

\* A success redirects to the new environment, so that the fetcher gets no answer.
CreateEnvironmentFormDialog ==
  [ConfirmDialog({"free", "copy"}, "effect", {"clear", "sync"})
   EXCEPT !.creates = TRUE, !.onSuccess = {"leave"}]

ServiceCleanupQueueConfirmModal == ConfirmDialog({"none"}, "effect", {})

\* They show no errors: the action tells them in a toast.
DeleteSSHKeyDialog == ConfirmDialog({"none"}, "none", {})
DeleteGitAppDialog == ConfirmDialog({"none"}, "none", {})
DeleteCredentialsDialog == ConfirmDialog({"none"}, "none", {})
DeleteRegistryDialog == ConfirmDialog({"none"}, "none", {})
StopServiceConfirmationDialog == ConfirmDialog({"none"}, "none", {})
StopStackConfirmationDialog == ConfirmDialog({"none"}, "none", {})

DeleteVariableConfirmationDialog == ConfirmDialog({"none"}, "answer", {})

\* The deployment of the pending changes, then the page of the deployments.
DeployDialog(kinds) ==
  [Form("dialog", kinds) EXCEPT !.onSuccess = {"close", "leave"}]

ServiceChangesModal == DeployDialog({"free"})
ComposeStackChangesModal == DeployDialog({"free"})

\* Buttons with a fetcher of their own.
CommandButton == [Form("inline", {"none"}) EXCEPT !.errors = "none"]

DiscardServiceChanges == CommandButton
DiscardServiceChange == CommandButton
DiscardStackChanges == CommandButton
DiscardStackChange == CommandButton
ServiceActionsPopover == [CommandButton EXCEPT !.onSuccess = {"leave"}]
ComposeStackActionsPopover == [CommandButton EXCEPT !.onSuccess = {"leave"}]
CredentialActions == CommandButton
GitlabAppCard == CommandButton
DeploymentCancelForm == CommandButton
StackDeploymentCancelForm == CommandButton

-----------------------------------------------------------------------------
\* Environment variables

\* Faulty variant: stays open.
VariableRowOpen == [Form("row", {"free"}) EXCEPT !.onCancel = {"close"}]

\* A row that turns into a form: it quits when the answer has no errors.
VariableRow ==
  [Form("row", {"free"}) EXCEPT !.onSuccess = {"close"}, !.onCancel = {"close"}]

EditServiceVariable == [VariableRow EXCEPT !.locks = "opening", !.discards = "beside"]
EditStackVariable == [VariableRow EXCEPT !.locks = "opening", !.discards = "beside"]
EditEnvironmentVariable == [VariableRow EXCEPT !.onSuccess = {"reset", "close"}]

\* The effect of these two depends on the object of the errors, new each time.
NewServiceVariable ==
  [Form("inline", {"free"})
   EXCEPT !.creates = TRUE, !.followsData = "any",
          !.onSuccess = {"reset"}, !.onCancel = {"reset"}]

AddEnvironmentVariable ==
  [Form("inline", {"free"})
   EXCEPT !.creates = TRUE, !.followsData = "any", !.onSuccess = {"reset"}]

\* Faulty variant: its effect depends on an object of each rendering.
NewStackVariableFollowing ==
  [Form("inline", {"free"})
   EXCEPT !.creates = TRUE, !.errors = "effect", !.followsData = "any",
          !.onSuccess = {"reset"}, !.onCancel = {"reset", "clear"}]

NewStackVariable ==
  [Form("inline", {"free"})
   EXCEPT !.creates = TRUE, !.errors = "effect",
          !.onSuccess = {"reset"}, !.onCancel = {"reset", "clear"}]

DotEnvFileFormDialog ==
  [Form("dialog", {"copy"})
   EXCEPT !.creates = TRUE, !.errors = "effect",
          !.onSuccess = {"reset", "sync", "close"},
          !.onCancel = {"close", "clear", "sync"}, !.onClose = {"clear", "sync"}]

-----------------------------------------------------------------------------
\* Compose stacks

ComposeStackSlugForm ==
  [Form("editing", {"free"})
   EXCEPT !.errors = "effect", !.onSuccess = {"close"},
          !.onCancel = {"reset", "close", "clear"}]

ComposeStackUserContentForm ==
  [LockedByChange(Form("inline", {"copy"}))
   EXCEPT !.errors = "callback", !.followsData = "value",
          !.onSuccess = {"reset", "sync"}, !.onCancel = {"reset", "clear", "sync"}]

ComposeStackDeployURLForm == CommandButton

-----------------------------------------------------------------------------
\* Projects and environments

ProjectDetailsForm == Form("inline", {"free"})
EnvironmentNameForm == Form("inline", {"free"})

\* Forms of a page, which the action redirects from.
PageForm(kinds) == [Form("inline", kinds) EXCEPT !.onSuccess = {"leave"}]

CreateProjectForm == [PageForm({"free"}) EXCEPT !.creates = TRUE]

\* The fields of a template are copies made when the page is mounted.
CreatePreviewTemplateForm == [PageForm({"free", "copy"}) EXCEPT !.creates = TRUE]
EditPreviewTemplateForm == PageForm({"free", "copy"})

ReviewDeploymentForm == [PageForm({"none"}) EXCEPT !.errors = "none"]

-----------------------------------------------------------------------------
\* The pages that create a service or a stack: each of their steps is a form that the
\* next step replaces.

Step(kinds) == PageForm(kinds)

FirstStep(kinds) == [Step(kinds) EXCEPT !.creates = TRUE]

DockerServiceStep == FirstStep({"free", "copy"})
PublicGitServiceStep == FirstStep({"free", "copy"})
GitAppServiceStep == FirstStep({"free", "copy"})
StackContentsStep == FirstStep({"free"})
StackDokployStep == FirstStep({"free", "copy"})
StackTemplateStep == FirstStep({"free", "copy"})

\* The second step deploys what the first one created.
DockerServiceCreated == Step({"none"})
PublicGitServiceCreated == Step({"none"})
GitAppServiceCreated == Step({"none"})
StackContentsCreated == Step({"none"})
StackDokployCreated == Step({"none"})
StackTemplateCreated == Step({"none"})

-----------------------------------------------------------------------------
\* Settings of the server, and the user

GithubAppCard ==
  [Form("swapped", {"free"})
   EXCEPT !.errors = "effect", !.onSuccess = {"close"},
          !.onCancel = {"reset", "close", "clear"}]

CreateSSHKeyForm == [PageForm({"free"}) EXCEPT !.creates = TRUE]
CreateGitlabAppForm == [PageForm({"free"}) EXCEPT !.creates = TRUE]
EditGitlabAppForm == PageForm({"free"})
CreateRegistryCredentialsForm == [PageForm({"free", "copy"}) EXCEPT !.creates = TRUE]
EditRegistryCredentialsForm == PageForm({"free", "copy"})
CreateBuildRegistryForm == [PageForm({"free", "copy"}) EXCEPT !.creates = TRUE]
EditBuildRegistryForm == PageForm({"free", "copy"})
ChangePasswordForm == PageForm({"free"})
UpdateProfileForm == Form("inline", {"free"})
LoginPage == [PageForm({"free"}) EXCEPT !.creates = TRUE]
InitialRegistration == [PageForm({"free"}) EXCEPT !.creates = TRUE]

-----------------------------------------------------------------------------
\* The forms by name.
Component ==
  [ServiceSlugForm |-> ServiceSlugForm, ServiceSourceForm |-> ServiceSourceForm,
   ServiceGitSourceForm |-> ServiceGitSourceForm,
   ServiceBuilderForm |-> ServiceBuilderForm, ServiceCommandForm |-> ServiceCommandForm,
   ServiceHealthcheckForm |-> ServiceHealthcheckForm,
   ServiceResourceLimits |-> ServiceResourceLimits,
   ServiceAutoDeployForm |-> ServiceAutoDeployForm, ServicePortItem |-> ServicePortItem,
   ServiceVolumeItem |-> ServiceVolumeItem,
   ServiceSharedVolumeItem |-> ServiceSharedVolumeItem,
   ServiceURLFormItem |-> ServiceURLFormItem, ServiceConfigItem |-> ServiceConfigItem,
   NewServicePortForm |-> NewServicePortForm,
   NewServiceVolumeForm |-> NewServiceVolumeForm,
   NewServiceSharedVolumeForm |-> NewServiceSharedVolumeForm,
   NewServiceURLForm |-> NewServiceURLForm, NewServiceConfigForm |-> NewServiceConfigForm,
   ServiceDeployURLForm |-> ServiceDeployURLForm,
   ServicePreviewDeployURLForm |-> ServicePreviewDeployURLForm,
   ArchiveServiceDialog |-> ArchiveServiceDialog,
   ArchiveStackDialog |-> ArchiveStackDialog,
   ArchiveProjectDialog |-> ArchiveProjectDialog,
   EnvironmentDeleteFormDialog |-> EnvironmentDeleteFormDialog,
   DeleteTemplateDialog |-> DeleteTemplateDialog,
   CreateEnvironmentFormDialog |-> CreateEnvironmentFormDialog,
   ServiceCleanupQueueConfirmModal |-> ServiceCleanupQueueConfirmModal,
   DeleteSSHKeyDialog |-> DeleteSSHKeyDialog, DeleteGitAppDialog |-> DeleteGitAppDialog,
   DeleteCredentialsDialog |-> DeleteCredentialsDialog,
   DeleteRegistryDialog |-> DeleteRegistryDialog,
   StopServiceConfirmationDialog |-> StopServiceConfirmationDialog,
   StopStackConfirmationDialog |-> StopStackConfirmationDialog,
   DeleteVariableConfirmationDialog |-> DeleteVariableConfirmationDialog,
   ServiceChangesModal |-> ServiceChangesModal,
   ComposeStackChangesModal |-> ComposeStackChangesModal,
   DiscardServiceChanges |-> DiscardServiceChanges,
   DiscardServiceChange |-> DiscardServiceChange,
   DiscardStackChanges |-> DiscardStackChanges, DiscardStackChange |-> DiscardStackChange,
   ServiceActionsPopover |-> ServiceActionsPopover,
   ComposeStackActionsPopover |-> ComposeStackActionsPopover,
   CredentialActions |-> CredentialActions, GitlabAppCard |-> GitlabAppCard,
   DeploymentCancelForm |-> DeploymentCancelForm,
   StackDeploymentCancelForm |-> StackDeploymentCancelForm,
   EditServiceVariable |-> EditServiceVariable, EditStackVariable |-> EditStackVariable,
   EditEnvironmentVariable |-> EditEnvironmentVariable,
   NewServiceVariable |-> NewServiceVariable,
   AddEnvironmentVariable |-> AddEnvironmentVariable,
   NewStackVariable |-> NewStackVariable, DotEnvFileFormDialog |-> DotEnvFileFormDialog,
   ComposeStackSlugForm |-> ComposeStackSlugForm,
   ComposeStackUserContentForm |-> ComposeStackUserContentForm,
   ComposeStackDeployURLForm |-> ComposeStackDeployURLForm,
   ProjectDetailsForm |-> ProjectDetailsForm, EnvironmentNameForm |-> EnvironmentNameForm,
   CreateProjectForm |-> CreateProjectForm,
   CreatePreviewTemplateForm |-> CreatePreviewTemplateForm,
   EditPreviewTemplateForm |-> EditPreviewTemplateForm,
   ReviewDeploymentForm |-> ReviewDeploymentForm, GithubAppCard |-> GithubAppCard,
   CreateSSHKeyForm |-> CreateSSHKeyForm, CreateGitlabAppForm |-> CreateGitlabAppForm,
   EditGitlabAppForm |-> EditGitlabAppForm,
   CreateRegistryCredentialsForm |-> CreateRegistryCredentialsForm,
   EditRegistryCredentialsForm |-> EditRegistryCredentialsForm,
   CreateBuildRegistryForm |-> CreateBuildRegistryForm,
   EditBuildRegistryForm |-> EditBuildRegistryForm,
   ChangePasswordForm |-> ChangePasswordForm, UpdateProfileForm |-> UpdateProfileForm,
   LoginPage |-> LoginPage, InitialRegistration |-> InitialRegistration,
   DockerServiceStep |-> DockerServiceStep, PublicGitServiceStep |-> PublicGitServiceStep,
   GitAppServiceStep |-> GitAppServiceStep, StackContentsStep |-> StackContentsStep,
   StackDokployStep |-> StackDokployStep, StackTemplateStep |-> StackTemplateStep,
   DockerServiceCreated |-> DockerServiceCreated, PublicGitServiceCreated |-> PublicGitServiceCreated,
   GitAppServiceCreated |-> GitAppServiceCreated, StackContentsCreated |-> StackContentsCreated,
   StackDokployCreated |-> StackDokployCreated, StackTemplateCreated |-> StackTemplateCreated]
=============================================================================
