----------------------------- MODULE AppActions -----------------------------
(***************************************************************************)
(* The actions of the web application: the clientAction of each route of   *)
(* frontend routes/, and the functions it dispatches to by intent.  An     *)
(* action sends one request and then tells the query cache and the router  *)
(* what to do with its answer:                                             *)
(*                                                                         *)
(*   writes       the kinds of server data the request changes;            *)
(*   creates      the objects, as <<kind, slug>>, that exist after it only;*)
(*   deletes      the objects that no longer exist after it (a new slug    *)
(*                creates and deletes);                                    *)
(*   cancels      the queries whose fetches it cancels before the request; *)
(*   removes      the queries it removes from the cache;                   *)
(*   invalidates  the queries it invalidates;                              *)
(*   awaits       whether it waits for the active ones to be refetched;    *)
(*   always       whether it does so when the request is rejected too;     *)
(*   seeds        the keys it then sets to the data of the answer;         *)
(*   goes         where it redirects, Stay otherwise;                      *)
(*   rejected     where it redirects when the request is rejected.         *)
(*                                                                         *)
(* The parameter `at' has the slugs of the page: p project, e environment, *)
(* s service, k stack, h deployment, t template and id.  New slugs are     *)
(* "new".  The bodies of the requests are left out.                        *)
(***************************************************************************)
EXTENDS AppQueries

Here == [p |-> "p", e |-> "e", s |-> "s", k |-> "k", h |-> "h", t |-> "t", id |-> "id"]

Go(page, at) == [page |-> page, at |-> at]
Stay == Go("stay", Here)
External == Go("external", Here)

Request(writes) ==
  [writes |-> writes, creates |-> {}, deletes |-> {}, cancels |-> {},
   removes |-> {}, invalidates |-> {}, awaits |-> TRUE, always |-> FALSE,
   seeds |-> {}, goes |-> Stay, rejected |-> Stay]

\* A request whose answer makes the action wait for the refetch of `selectors'.
Refreshing(writes, selectors) ==
  [Request(writes) EXCEPT !.invalidates = selectors]

Resources == Rooted("RESOURCES")

-----------------------------------------------------------------------------
\* Services

ServiceOf(at) == serviceSingle(at.p, at.e, at.s)

\* Change requests: the body depends on the field of the change, the rest does
\* not; a rejected one leaves the cache alone.
requestServiceChange(at) == Refreshing({"Service"}, {Exactly(ServiceOf(at))})
cancelServiceChange(at)  == Refreshing({"Service"}, {Exactly(ServiceOf(at))})
discardServiceChange(at) == Refreshing({"Service"}, {Exactly(ServiceOf(at))})
regenerateDeployToken(at) == Refreshing({"Service"}, {Exactly(ServiceOf(at))})

\* One request per change: some may be rejected, the cache is refreshed all the
\* same.
discardMultipleChanges(at) ==
  [Refreshing({"Service"}, {Prefix(ServiceOf(at))}) EXCEPT !.always = TRUE]

updateServiceSlug(at) ==
  [Refreshing({"Service", "Names"},
              {Prefix(ServiceOf(at)), Prefix(serviceList(at.p, at.e, "{}")), Resources})
   EXCEPT !.creates = {<<"Service", "new">>}, !.deletes = {<<"Service", at.s>>},
          !.cancels = {Exactly(ServiceOf(at))},
          !.seeds = {serviceSingle(at.p, at.e, "new").key}]

updateServiceAutoDeployOptions(at) ==
  [Refreshing({"Service"}, {Prefix(ServiceOf(at))})
   EXCEPT !.cancels = {Exactly(ServiceOf(at))}]

serviceSettingsAction(intent, at) ==
  CASE intent = "update-slug"             -> updateServiceSlug(at)
    [] intent = "update-auto-deploy"      -> updateServiceAutoDeployOptions(at)
    [] intent \in {"request-service-change", "remove-service-healthcheck",
                   "remove-service-resource-limits"} -> requestServiceChange(at)
    [] intent = "cancel-service-change"   -> cancelServiceChange(at)
    [] intent = "regenerate-deploy-token" -> regenerateDeployToken(at)

\* The five functions of the variables page: a change request each.
createServiceVariable(at) == Refreshing({"Service"}, {Exactly(ServiceOf(at))})
updateServiceVariable(at) == Refreshing({"Service"}, {Exactly(ServiceOf(at))})
deleteServiceVariable(at) == Refreshing({"Service"}, {Exactly(ServiceOf(at))})
addDotEnvVariables(at)    == Refreshing({"Service"}, {Exactly(ServiceOf(at))})
cancelServiceVariable(at) == Refreshing({"Service"}, {Exactly(ServiceOf(at))})

serviceVariablesAction(intent, at) ==
  CASE intent = "create-env-variable" -> createServiceVariable(at)
    [] intent = "update-env-variable" -> updateServiceVariable(at)
    [] intent = "cancel-env-change"   -> cancelServiceVariable(at)
    [] intent = "delete-env-variable" -> deleteServiceVariable(at)
    [] intent = "add-dotenv-values"   -> addDotEnvVariables(at)

deployDockerService(at) ==
  Refreshing({"Service", "Deployment"}, {Prefix(ServiceOf(at))})
deployGitService(at) ==
  Refreshing({"Service", "Deployment"}, {Prefix(ServiceOf(at))})
cleanupDeployQueue(at) ==
  Refreshing({"Deployment"}, {Prefix(ServiceOf(at))})

\* The workflow of the request changes the deployment later: see ToggleToast.
toggleServiceState(at) == Refreshing({}, {Prefix(ServiceOf(at))})

\* The queries of the archived service are removed, the lists that showed it are
\* invalidated without waiting.
archiveService(at) ==
  [Request({"Service", "Names"})
   EXCEPT !.deletes = {<<"Service", at.s>>},
          !.removes = {Prefix(ServiceOf(at))},
          !.invalidates = {Prefix(serviceList(at.p, at.e, "{}")), Resources},
          !.awaits = FALSE,
          !.goes = Go("environment-service-list", at)]

archiveDockerService(at) == archiveService(at)
archiveGitService(at) == archiveService(at)

-----------------------------------------------------------------------------
\* Deployments of a service

redeployDockerDeployment(at) ==
  [Refreshing({"Service", "Deployment"}, {Prefix(ServiceOf(at))})
   EXCEPT !.goes = Go("services-deployment-list", at),
          !.rejected = Go("services-deployment-list", at)]

redeployGitDeployment(at) ==
  [Refreshing({"Service", "Deployment"}, {Prefix(ServiceOf(at))})
   EXCEPT !.goes = Go("services-deployment-list", at),
          !.rejected = Go("services-deployment-list", at)]

\* The form of the deployment page asks not to be redirected.
cancelDeployment(at, shouldRedirect) ==
  LET to == IF shouldRedirect THEN Go("services-deployment-list", at) ELSE Stay
  IN  [Refreshing({"Deployment"}, {Exactly(ServiceOf(at))})
       EXCEPT !.goes = to, !.rejected = to]

-----------------------------------------------------------------------------
\* Compose stacks

StackOf(at) == stackSingle(at.p, at.e, at.k)

requestStackChange(at) == Refreshing({"Stack"}, {Exactly(StackOf(at))})
cancelStackChange(at)  == Refreshing({"Stack"}, {Exactly(StackOf(at))})
discardStackChange(at) == Refreshing({"Stack"}, {Exactly(StackOf(at))})

discardMultipleStackChanges(at) ==
  [Refreshing({"Stack"}, {Exactly(StackOf(at))}) EXCEPT !.always = TRUE]

updateStackSlug(at) ==
  [Refreshing({"Stack", "Names"},
              {Prefix(StackOf(at)), Prefix(composeStackList(at.p, at.e, "{}")), Resources})
   EXCEPT !.creates = {<<"Stack", "new">>}, !.deletes = {<<"Stack", at.k>>},
          !.cancels = {Exactly(StackOf(at))},
          !.seeds = {stackSingle(at.p, at.e, "new").key}]

stackSettingsAction(intent, at) ==
  CASE intent = "update-slug"          -> updateStackSlug(at)
    [] intent = "request-stack-change" -> requestStackChange(at)
    [] intent = "cancel-stack-change"  -> cancelStackChange(at)

deployComposeStack(at) ==
  Refreshing({"Stack", "StackDeployment"},
             {Prefix(StackOf(at)), Prefix(stackDeploymentList(at.p, at.e, at.k, "{}"))})

toggleComposeStack(at) == Refreshing({}, {Prefix(StackOf(at))})

regenerateStackDeployToken(at) == Refreshing({"Stack"}, {Prefix(StackOf(at))})

archiveComposeStack(at) ==
  [Refreshing({"Stack", "Names"}, {Prefix(composeStackList(at.p, at.e, "{}"))})
   EXCEPT !.deletes = {<<"Stack", at.k>>},
          !.goes = Go("environment-service-list", at)]

StackDeploymentsOf(at) ==
  {Exactly(stackDeployment(at.p, at.e, at.k, at.h)),
   Prefix(stackDeploymentList(at.p, at.e, at.k, "{}"))}

cancelComposeDeployment(at) ==
  Refreshing({"StackDeployment"}, StackDeploymentsOf(at))

redeployComposeDeployment(at) ==
  [Refreshing({"Stack", "StackDeployment"}, StackDeploymentsOf(at))
   EXCEPT !.rejected = Go("compose-stack-deployment-list", at)]

-----------------------------------------------------------------------------
\* Projects

ProjectOf(at) == projectSingle(at.p)

createProject(at) ==
  [Request({"Project", "Names"})
   EXCEPT !.creates = {<<"Project", "new">>, <<"Env", "production">>},
          !.invalidates = {Rooted("PROJECT_LIST")},
          !.awaits = FALSE,
          !.goes = Go("environment-service-list", [at EXCEPT !.p = "new", !.e = "production"])]

\* A new slug seeds the query of the renamed project and redirects to its page;
\* a change of the description alone does neither.
updateProject(at, newSlug) ==
  [Request(IF newSlug THEN {"Project", "Names"} ELSE {"Project"})
   EXCEPT !.creates = IF newSlug THEN {<<"Project", "new">>} ELSE {},
          !.deletes = IF newSlug THEN {<<"Project", at.p>>} ELSE {},
          !.invalidates = {Prefix(ProjectOf(at))},
          !.awaits = FALSE,
          !.seeds = IF newSlug THEN {projectSingle("new").key} ELSE {},
          !.goes = IF newSlug THEN Go("project-settings", [at EXCEPT !.p = "new"]) ELSE Stay]

archiveProject(at) ==
  [Request({"Project", "Names"})
   EXCEPT !.deletes = {<<"Project", at.p>>},
          !.invalidates = {Prefix(ProjectOf(at)), Resources, Rooted("PROJECT_LIST")},
          !.awaits = FALSE,
          !.goes = Go("dashboard", at)]

projectSettingsAction(intent, at, newSlug) ==
  CASE intent = "update_project"  -> updateProject(at, newSlug)
    [] intent = "archive_project" -> archiveProject(at)

-----------------------------------------------------------------------------
\* Environments

\* The same function in the list of environments and in the settings of one.
renameEnvironment(at) ==
  [Refreshing({"Env", "EnvName", "Names"},
              {Prefix(ProjectOf(at)), Prefix(serviceList(at.p, at.e, "{}"))})
   EXCEPT !.creates = {<<"Env", "new">>}, !.deletes = {<<"Env", at.e>>}]

archiveEnvironment(at, to) ==
  [Refreshing({"EnvName", "Names"}, {Prefix(ProjectOf(at)), Resources})
   EXCEPT !.deletes = {<<"Env", at.e>>}, !.goes = to]

createEnvironment(at) ==
  [Refreshing({"EnvName", "Names"}, {Prefix(ProjectOf(at))})
   EXCEPT !.creates = {<<"Env", "new">>},
          !.goes = Go("environment-service-list", [at EXCEPT !.e = "new"])]

cloneEnvironment(at) == createEnvironment(at)

projectEnvironmentsAction(intent, at) ==
  CASE intent = "rename_environment"  -> renameEnvironment(at)
    [] intent = "create_environment"  -> createEnvironment(at)
    [] intent = "clone_environment"   -> cloneEnvironment(at)
    [] intent = "archive_environment" ->
         archiveEnvironment(at, Go("project-environments", at))

\* The settings of an environment go to the production one after its archive.
environmentSettingsAction(intent, at) ==
  CASE intent = "rename_environment"  -> renameEnvironment(at)
    [] intent = "archive_environment" ->
         archiveEnvironment(at, Go("environment-service-list", [at EXCEPT !.e = "production"]))

EnvironmentOf(at) == environmentSingle(at.p, at.e)

addEnvironmentVariable(at)    == Refreshing({"Env"}, {Prefix(EnvironmentOf(at))})
updateEnvironmentVariable(at) == Refreshing({"Env"}, {Prefix(EnvironmentOf(at))})
deleteEnvironmentVariable(at) == Refreshing({"Env"}, {Prefix(EnvironmentOf(at))})

environmentVariablesAction(intent, at) ==
  CASE intent = "add-env-variable"    -> addEnvironmentVariable(at)
    [] intent = "update-env-variable" -> updateEnvironmentVariable(at)
    [] intent = "delete-env-variable" -> deleteEnvironmentVariable(at)

bulkDeployServices(at) ==
  Refreshing({"Service", "Deployment"}, {Prefix(serviceList(at.p, at.e, "{}"))})

bulkToggleServices(at) == Refreshing({}, {Prefix(serviceList(at.p, at.e, "{}"))})

\* The decision is sent for the environment that the cache has; then the browser
\* leaves for the page of the pull request.
reviewDeployment(at) ==
  [Refreshing({"Review"}, {Prefix(EnvironmentOf(at))}) EXCEPT !.goes = External]

-----------------------------------------------------------------------------
\* Preview templates

createPreviewTemplate(at) ==
  [Refreshing({"Template"}, {Prefix(previewTemplateList(at.p))})
   EXCEPT !.creates = {<<"Template", "new">>}, !.goes = Go("preview-templates", at)]

updatePreviewTemplate(at) ==
  [Refreshing({"Template"}, {Prefix(previewTemplateList(at.p))})
   EXCEPT !.goes = Go("preview-templates", at)]

deletePreviewTemplate(at) ==
  [Refreshing({"Template"}, {Prefix(previewTemplateList(at.p))})
   EXCEPT !.deletes = {<<"Template", at.t>>}, !.goes = Go("preview-templates", at)]

-----------------------------------------------------------------------------
\* Settings of the server

createSshKey(at) == Refreshing({"SshKey"}, {Prefix(sshKeyList)})

deleteSshKey(at) ==
  [Refreshing({"SshKey"}, {Prefix(sshKeyList)}) EXCEPT !.goes = Go("ssh-keys-list", at)]

GitApps == Rooted("GIT_APPS")

deleteGitApp(at) ==
  [Refreshing({"GitApp"}, {GitApps}) EXCEPT !.deletes = {<<"GitApp", at.id>>}]

renameGithubApp(at) == Refreshing({"GitApp"}, {GitApps})
testGithubAppConnection(at) == Request({})

githubAppAction(intent, at) ==
  CASE intent = "test_github_app_connection" -> testGithubAppConnection(at)
    [] intent = "rename_github_app"          -> renameGithubApp(at)

\* Both go to GitLab to ask for its consent, without touching the cache.
createGitlabApp(at) == [Request({"GitApp"}) EXCEPT !.goes = External]
updateGitlabApp(at) == [Request({"GitApp"}) EXCEPT !.goes = External]
testGitlabAppConnection(at) == Request({})
syncGitlabRepositories(at) == Request({"Repository"})

gitlabAppAction(intent, at) ==
  CASE intent = "test_gitlab_app_connection" -> testGitlabAppConnection(at)
    [] intent = "update_gitlab_app"          -> updateGitlabApp(at)
    [] intent = "sync_gitlab_repositories"   -> syncGitlabRepositories(at)

createBuildRegistry(at) ==
  [Refreshing({"Registry"}, {Prefix(buildRegistryList("{}"))})
   EXCEPT !.goes = Go("build-registry-list", at)]

Registries == Rooted("BUILD_REGISTRY_CREDENTIALS")

updateRegistry(at) ==
  [Refreshing({"Registry"}, {Registries}) EXCEPT !.goes = Go("build-registry-list", at)]

deleteRegistry(at) ==
  [Refreshing({"Registry"}, {Registries}) EXCEPT !.deletes = {<<"Registry", at.id>>}]

buildRegistryAction(intent, at) ==
  CASE intent = "update" -> updateRegistry(at)
    [] intent = "delete" -> deleteRegistry(at)

createCredentials(at) ==
  [Refreshing({"Credentials"}, {Prefix(credentialsList)})
   EXCEPT !.goes = Go("registry-credentials-list", at)]

updateCredentials(at) ==
  [Refreshing({"Credentials"}, {Prefix(credentialsList)})
   EXCEPT !.goes = Go("registry-credentials-list", at)]

testCredentials(at) ==
  [Refreshing({}, {Prefix(credentialsList)})
   EXCEPT !.rejected = Go("registry-credentials-list", at)]

\* Leaves the cache alone.
deleteCredentials(at) ==
  [Request({"Credentials"})
   EXCEPT !.deletes = {<<"Credentials", at.id>>},
          !.rejected = Go("registry-credentials-list", at)]

credentialsAction(intent, at) ==
  CASE intent = "update" -> updateCredentials(at)
    [] intent = "delete" -> deleteCredentials(at)
    [] intent = "test"   -> testCredentials(at)

updateProfile(at) ==
  [Refreshing({"User"}, {Prefix(authedUser)}) EXCEPT !.awaits = FALSE]

changePassword(at) ==
  [Refreshing({"User"}, {Prefix(authedUser)}) EXCEPT !.goes = Go("account-settings", at)]

-----------------------------------------------------------------------------
\* The wizards: see CreateFlow for their steps.  They leave the cache alone; the
\* lists that show the new service or stack are fetched again when mounted.

Creating(kind) == [Request({kind, "Names"}) EXCEPT !.creates = {<<kind, "new">>}]

createDockerService(at)        == Creating("Service")
createPublicGitService(at)     == Creating("Service")
createGitAppService(at)        == Creating("Service")
createStackFromContents(at)    == Creating("Stack")
createStackFromDokploy(at)     == Creating("Stack")
createStackFromTemplate(at)    == Creating("Stack")

deployNewDockerService(at)  == Request({"Service", "Deployment"})
deployNewGitService(at)     == Request({"Service", "Deployment"})
deployNewStack(at)          == Request({"Stack", "StackDeployment"})

-----------------------------------------------------------------------------
\* The session of the user and the update of the server

\* The query of the user is removed, for the loaders of the next page to ask again.
login(at) ==
  [Request({"User"}) EXCEPT !.removes = {Prefix(authedUser)}, !.goes = Go("dashboard", at)]

onboard(at) ==
  [Request({"User", "UserExists"})
   EXCEPT !.removes = {Prefix(checkUserExistence), Prefix(authedUser)},
          !.goes = Go("dashboard", at)]

logout(at) ==
  [Request({"User"})
   EXCEPT !.removes = {Prefix(authedUser)},
          !.goes = Go("login", at), !.rejected = Go("dashboard", at)]

triggerUpdate == Refreshing({"Update"}, {Prefix(ongoingUpdate)})
=============================================================================
