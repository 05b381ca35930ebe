------------------------------- MODULE MCFlows -------------------------------
\* What a user follows on a page: a button with its toast, a filter bar, a form.  They
\* share nothing: a behaviour is one of one of them, and the others stay as they are.
EXTENDS ToggleToast, FilterBar, FormPanel

AllButtons ==
  {ToggleServiceForm, ToggleStackForm, ToggleStackServiceForm, ToggleStackServiceCardForm}

AllBars ==
  {deploymentLogsHeader, runtimeLogsHeader, serviceHttpLogsHeader, deploymentHttpLogsHeader,
   stackHttpLogsHeader, stackServiceHttpLogsHeader, ProjectsListSection, EnvironmentLayout,
   TemplateSearchList, DeploymentListPage, ComposeStackDeploymentListPage}

AllForms == DOMAIN Component

VARIABLE flow

Init ==
  /\ flow \in {"toggle", "filter", "form"}
  /\ ToggleInit /\ (flow # "toggle" => button = ToggleStackForm /\ state = "start")
  /\ FilterInit /\ (flow # "filter" => bar = deploymentLogsHeader)
  /\ FormInit   /\ (flow # "form" => name = "ServiceSlugForm")

Next ==
  \/ flow = "toggle" /\ ToggleNext /\ UNCHANGED <<barVars, formVars, flow>>
  \/ flow = "filter" /\ FilterNext /\ UNCHANGED <<toggleVars, formVars, flow>>
  \/ flow = "form" /\ FormNext /\ UNCHANGED <<toggleVars, barVars, flow>>

\* A component that is not followed is at rest: nothing is asked of it.
Spec ==
  /\ Init /\ [][Next]_<<toggleVars, barVars, formVars, flow>>
  /\ ToggleFairness /\ FormFairness
=============================================================================
