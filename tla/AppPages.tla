------------------------------ MODULE AppPages ------------------------------
(***************************************************************************)
(* The pages of the web application: the route components and layouts of   *)
(* frontend routes/, and the tree of routes.ts that nests them.  A page is *)
(*                                                                         *)
(*   loads   the queries its loaders ensure before it is shown: a loader   *)
(*           takes the data of the cache, however old, and asks the server *)
(*           only when there is none;                                      *)
(*   first   those a loader ensures on some of its runs only;              *)
(*   mounts  the queries its components observe while it is shown; the     *)
(*           data that a loader returned is their initial data;            *)
(*   forms   what its forms, dialogs and menus submit: an action and the   *)
(*           page the component goes to when the action succeeded.         *)
(*                                                                         *)
(* A page inside a layout has what the layout has.  The parameter `at' has *)
(* the slugs of the URL, as in AppActions.                                 *)
(***************************************************************************)
EXTENDS AppActions, TLC

Page(loads, mounts, forms) ==
  [loads |-> loads, first |-> {}, mounts |-> mounts, forms |-> forms]

NoQueries(forms) == Page({}, {}, forms)

\* A query that a loader gives and a component then observes.
Shows(queries, forms) == Page(queries, queries, forms)

Within(layout, page) ==
  [loads  |-> layout.loads \cup page.loads,
   first  |-> layout.first \cup page.first,
   mounts |-> layout.mounts \cup page.mounts,
   forms  |-> layout.forms \cup page.forms]

\* A form whose component leaves the page to the router, or goes to a page of its
\* own when the action succeeded.
Submits(name, action) == [name |-> name, action |-> action, then |-> Stay]
SubmitsThenGoes(name, action, page, at) ==
  [name |-> name, action |-> action, then |-> Go(page, at)]

-----------------------------------------------------------------------------
\* The layout of the signed-in pages, and the pages right under it

DashboardLayout ==
  Page({authedUser, checkUserExistence},
       {latest, settings, ongoingUpdate, authedUser},
       {Submits("UpdateDialog", triggerUpdate)})

CommandMenuSearchbar == Page({}, {search("{f}")}, {})

Dashboard == Shows({projectList("{f}"), recentDeployments}, {})

CreateProjectPage(at) == NoQueries({Submits("CreateForm", createProject(at))})

ReviewEnvDeploymentPage(at) ==
  Page({pendingReview(at.p, at.e)}, {},
       {Submits("ReviewForm", reviewDeployment(at))})

-----------------------------------------------------------------------------
\* A project

ProjectLayout(at) == Page({projectSingle(at.p)}, {}, {})

ProjectSettingsPage(at) ==
  NoQueries({Submits("ProjectSlug", updateProject(at, TRUE)),
             Submits("ProjectDescription", updateProject(at, FALSE)),
             Submits("DeleteProject", archiveProject(at))})

ProjectEnvironmentsPage(at) ==
  Page({}, {projectSingle(at.p)},
       {Submits("CreateEnvironment", createEnvironment(at)),
        Submits("CloneEnvironment", cloneEnvironment(at))})

PreviewTemplatesPage(at) ==
  Shows({previewTemplateList(at.p)},
        {Submits("DeletePreviewTemplate", deletePreviewTemplate(at))})

\* The form lists what the base environment of the template has.
CreatePreviewTemplatePage(at) ==
  Page({}, {serviceList(at.p, "production", "{}"), composeStackList(at.p, "production", "{}")},
       {Submits("CreatePreviewTemplate", createPreviewTemplate(at))})

PreviewTemplateDetailsPage(at) ==
  Within(Shows({previewTemplateSingle(at.p, at.t)}, {}),
         Page({}, {serviceList(at.p, "production", "{}"),
                   composeStackList(at.p, "production", "{}")},
              {Submits("EditPreviewTemplate", updatePreviewTemplate(at))}))

-----------------------------------------------------------------------------
\* An environment

\* The environment is taken from the cache when it has it: only the first visit
\* loads it, and the list of its services with it.
EnvironmentLayout(at) ==
  [Page({projectSingle(at.p), environmentSingle(at.p, at.e)},
        {projectSingle(at.p), serviceList(at.p, at.e, "{f}")}, {})
   EXCEPT !.first = {serviceList(at.p, at.e, "{f}")}]

EnvironmentServiceListPage(at) ==
  Shows({serviceList(at.p, at.e, "{f}"), composeStackList(at.p, at.e, "{f}")},
        {Submits("BulkDeploy", bulkDeployServices(at)),
         Submits("BulkToggle", bulkToggleServices(at))})

EnvironmentVariablesPage(at) ==
  Page({}, {environmentSingle(at.p, at.e)},
       {Submits("AddEnvironmentVariable", addEnvironmentVariable(at)),
        Submits("UpdateEnvironmentVariable", updateEnvironmentVariable(at)),
        Submits("DeleteEnvironmentVariable", deleteEnvironmentVariable(at))})

EnvironmentSettingsPage(at) ==
  Page({}, {environmentSingle(at.p, at.e)},
       {Submits("EnvironmentName", environmentSettingsAction("rename_environment", at)),
        Submits("DeleteEnvironment", environmentSettingsAction("archive_environment", at))})

-----------------------------------------------------------------------------
\* A service

\* DeployServiceForm: the modal of the pending changes and the menu of actions.
ServiceMenus(at) ==
  Page({}, {serviceDeploymentList(at.p, at.e, at.s, "{}")},
       {SubmitsThenGoes("ChangesModalDeploy", deployDockerService(at), "services-deployment-list", at),
        Submits("DiscardMultiple", discardMultipleChanges(at)),
        Submits("DiscardChange", discardServiceChange(at)),
        SubmitsThenGoes("ActionsDeploy", deployDockerService(at), "services-deployment-list", at),
        SubmitsThenGoes("ActionsDeployGit", deployGitService(at), "services-deployment-list", at),
        Submits("CleanupQueue", cleanupDeployQueue(at)),
        Submits("ToggleService", toggleServiceState(at))})

ServiceDetailsLayout(at) ==
  Within(Page({serviceSingle(at.p, at.e, at.s), resourceLimits, detectedPorts(at.p, at.e, at.s)},
              {serviceSingle(at.p, at.e, at.s), detectedPorts(at.p, at.e, at.s)}, {}),
         ServiceMenus(at))

DeploymentListPage(at) ==
  Shows({serviceDeploymentList(at.p, at.e, at.s, "{f}")},
        {Submits("DeployForm", deployDockerService(at)),
         Submits("DeployFormGit", deployGitService(at)),
         Submits("CardRedeploy", redeployDockerDeployment(at)),
         Submits("CardRedeployGit", redeployGitDeployment(at)),
         Submits("CardCancel", cancelDeployment(at, TRUE))})

ServiceEnvVariablesPage(at) ==
  Page({}, {serviceSingle(at.p, at.e, at.s)},
       {Submits("CreateVariable", createServiceVariable(at)),
        Submits("UpdateVariable", updateServiceVariable(at)),
        Submits("DeleteVariable", deleteServiceVariable(at)),
        Submits("DotEnv", addDotEnvVariables(at)),
        Submits("CancelVariable", cancelServiceVariable(at))})

ServiceSettingsPage(at) ==
  Within(Page({gitAppList},
              {serviceSingle(at.p, at.e, at.s), gitAppList, credentialsList, resourceLimits,
               availableVolumes(at.p, at.e, at.s)}, {}),
         NoQueries(
           {SubmitsThenGoes("ServiceSlugForm", updateServiceSlug(at), "service-settings",
                            [at EXCEPT !.s = "new"]),
            Submits("ServiceAutoDeployForm", updateServiceAutoDeployOptions(at)),
            Submits("RequestChange", requestServiceChange(at)),
            Submits("CancelChange", cancelServiceChange(at)),
            Submits("RegenerateDeployToken", regenerateDeployToken(at)),
            Submits("ArchiveDockerService", archiveDockerService(at)),
            Submits("ArchiveGitService", archiveGitService(at))}))

\* A log is loaded when the URL names it; the list of the logs is in LogFeed.
ServiceHttpLogsPage(at) ==
  [Page({serviceSingle(at.p, at.e, at.s)},
        {serviceFilterHttpLogFields(at.p, at.e, at.s, "id", "field")}, {})
   EXCEPT !.first = {serviceSingleHttpLog(at.p, at.e, at.s, "request")}]

ServiceMetricsPage(at) == Shows({serviceMetrics(at.p, at.e, at.s, "{f}")}, {})

-----------------------------------------------------------------------------
\* A deployment of a service

DeploymentLayoutPage(at) ==
  Page({serviceSingle(at.p, at.e, at.s), resourceLimits, deploymentSingle(at.p, at.e, at.s, at.h)},
       {deploymentSingle(at.p, at.e, at.s, at.h)},
       {Submits("DeploymentCancelForm", cancelDeployment(at, FALSE))})

DeploymentLogsPage == NoQueries({})
DeploymentBuildLogsPage == NoQueries({})

DeploymentDetailsPage(at) == Page({}, {deploymentSingle(at.p, at.e, at.s, at.h)}, {})

DeploymentTerminalPage == NoQueries({})

DeploymentHttpLogsPage(at) ==
  [Page({}, {deploymentFilterHttpLogFields(at.p, at.e, at.s, at.h, "field")}, {})
   EXCEPT !.first = {deploymentSingleHttpLog(at.p, at.e, at.s, at.h, "request")}]

DeploymentMetricsPage(at) == Shows({deploymentMetrics(at.p, at.e, at.s, at.h, "{f}")}, {})

-----------------------------------------------------------------------------
\* The wizards that create a service

CreateServicePage(at) == NoQueries({})

CreateDockerServicePage(at) ==
  Within(Shows({credentialsList}, {}),
         Page({}, {dockerHubImages("query")},
              {Submits("CreateDockerService", createDockerService(at)),
               Submits("DeployDockerService", deployNewDockerService(at))}))

CreatePublicGitServicePage(at) ==
  Page({}, {gitRepositoryBranches("url")},
       {Submits("CreatePublicGitService", createPublicGitService(at)),
        Submits("DeployPublicGitService", deployNewGitService(at))})

CreatePrivateGitServicePage(at) == Shows({gitAppList}, {})

CreateGitServiceFromGitHubPage(at) ==
  Page({gitAppSingle(at.id)}, {gitRepositories(at.id, "{f}"), gitRepositoryBranches("url")},
       {Submits("CreateGitAppService", createGitAppService(at)),
        Submits("DeployGitAppService", deployNewGitService(at))})

-----------------------------------------------------------------------------
\* A compose stack

DeployStackForm(at) ==
  NoQueries({SubmitsThenGoes("StackChangesModalDeploy", deployComposeStack(at),
                             "compose-stack-deployment-list", at),
             Submits("StackDiscardMultiple", discardMultipleStackChanges(at)),
             Submits("StackDiscardChange", discardStackChange(at)),
             SubmitsThenGoes("StackActionsDeploy", deployComposeStack(at),
                             "compose-stack-deployment-list", at),
             Submits("ToggleStack", toggleComposeStack(at))})

ComposeStackLayoutPage(at) ==
  Within(Shows({stackSingle(at.p, at.e, at.k)}, {}), DeployStackForm(at))

ComposeStackServicesPage(at) ==
  Page({}, {stackSingle(at.p, at.e, at.k)},
       {Submits("StackDeployForm", deployComposeStack(at)),
        Submits("ToggleStackService", toggleComposeStack(at))})

ComposeStackSettingsPage(at) ==
  Page({}, {stackSingle(at.p, at.e, at.k)},
       {SubmitsThenGoes("StackSlugForm", updateStackSlug(at), "compose-stack-settings",
                        [at EXCEPT !.k = "new"]),
        Submits("StackRequestChange", requestStackChange(at)),
        Submits("StackCancelChange", cancelStackChange(at)),
        Submits("StackRegenerateToken", regenerateStackDeployToken(at)),
        Submits("ArchiveStack", archiveComposeStack(at))})

ComposeStackHttpLogsPage(at) ==
  [Page({stackSingle(at.p, at.e, at.k)},
        {stackFilterHttpLogFields(at.p, at.e, at.k, "id", "field")}, {})
   EXCEPT !.first = {stackSingleHttpLog(at.p, at.e, at.k, "request")}]

ComposeStackMetricsPage(at) ==
  Within(Shows({stackMetrics(at.p, at.e, at.k, "{f}")}, {}), Page({resourceLimits}, {}, {}))

ComposeStackDeploymentListPage(at) ==
  Shows({stackDeploymentList(at.p, at.e, at.k, "{f}")},
        {Submits("StackCardRedeploy", redeployComposeDeployment(at)),
         Submits("StackCardCancel", cancelComposeDeployment(at))})

ComposeStackDeploymentLayoutPage(at) ==
  Within(Page({stackSingle(at.p, at.e, at.k)}, {}, {}),
         Shows({stackDeployment(at.p, at.e, at.k, at.h)},
               {Submits("StackDeploymentCancelForm", cancelComposeDeployment(at))}))

ComposeStackDeploymentLogsPage == NoQueries({})

ComposeStackDeploymentDetailsPage(at) ==
  Page({}, {stackDeployment(at.p, at.e, at.k, at.h)}, {})

ComposeStackServiceLayoutPage(at) ==
  Shows({stackSingle(at.p, at.e, at.k)}, {Submits("ToggleStackServiceLayout", toggleComposeStack(at))})

ComposeStackServiceReplicasPage(at) == Page({}, {stackSingle(at.p, at.e, at.k)}, {})
ComposeStackRuntimeLogsPage(at)     == Page({}, {stackSingle(at.p, at.e, at.k)}, {})
ComposeStackServiceTerminalPage(at) == Page({}, {stackSingle(at.p, at.e, at.k)}, {})
ComposeStackServiceDetailsPage(at)  == Page({}, {stackSingle(at.p, at.e, at.k)}, {})

ComposeStackServiceHttpLogsPage(at) ==
  [Page({stackSingle(at.p, at.e, at.k)},
        {stackFilterHttpLogFields(at.p, at.e, at.k, "id", "field")}, {})
   EXCEPT !.first = {stackSingleHttpLog(at.p, at.e, at.k, "request")}]

ComposeStackServiceMetricsPage(at) ==
  Within(Shows({stackMetrics(at.p, at.e, at.k, "{f}")}, {}), Page({resourceLimits}, {}, {}))

-----------------------------------------------------------------------------
\* The wizards that create a compose stack

CreateComposeStackPage(at) == NoQueries({})

CreateComposeStackFromContentsPage(at) ==
  NoQueries({Submits("CreateStackFromContents", createStackFromContents(at)),
             Submits("DeployStackFromContents", deployNewStack(at))})

CreateComposeStackFromDokployPage(at) ==
  NoQueries({Submits("CreateStackFromDokploy", createStackFromDokploy(at)),
             Submits("DeployStackFromDokploy", deployNewStack(at))})

ComposeStackTemplateListPage(at) == Shows({templateSearch("{f}"), templateTags}, {})

CreateComposeStackFromTemplatePage(at) ==
  Page({templateSingle(at.t)}, {},
       {Submits("CreateStackFromTemplate", createStackFromTemplate(at)),
        Submits("DeployStackFromTemplate", deployNewStack(at))})

-----------------------------------------------------------------------------
\* The settings of the server

SettingsLayoutPage == NoQueries({})

UserSettingsPage(at) == Shows({authedUser}, {Submits("UpdateProfileForm", updateProfile(at))})

ChangePasswordPage(at) == NoQueries({Submits("ChangePasswordForm", changePassword(at))})

SSHKeysPage(at) == Shows({sshKeyList}, {Submits("DeleteSshKey", deleteSshKey(at))})

CreateSSHKeyPage(at) == NoQueries({Submits("CreateSSHKeyForm", createSshKey(at))})

ServerTerminalPage(at) == Shows({sshKeyList}, {})

GitConnectorsListPage(at) ==
  Shows({gitAppList},
        {Submits("DeleteGitApp", deleteGitApp(at)),
         Submits("RenameGithubApp", renameGithubApp(at)),
         Submits("TestGithubApp", testGithubAppConnection(at)),
         Submits("TestGitlabApp", testGitlabAppConnection(at)),
         Submits("SyncGitlabRepositories", syncGitlabRepositories(at))})

CreateGithubAppPage(at) == Page({settings}, {}, {})

CreateGitlabAppPage(at) ==
  Page({settings}, {}, {Submits("CreateGitlabAppForm", createGitlabApp(at))})

GitlabAppDetailsPage(at) ==
  Page({gitlab(at.id)}, {}, {Submits("EditGitlabAppForm", updateGitlabApp(at))})

ContainerRegistryCredentialsPage(at) ==
  Shows({credentialsList},
        {Submits("TestCredentials", testCredentials(at)),
         Submits("DeleteCredentials", deleteCredentials(at))})

CreateRegistryCredentialsPage(at) ==
  NoQueries({Submits("CreateRegistryCredentialsForm", createCredentials(at))})

ContainerRegistryCredentialDetailsPage(at) ==
  Shows({credentialsSingle(at.id)},
        {Submits("EditRegistryCredentialsForm", updateCredentials(at))})

BuildRegistryListPage(at) ==
  Shows({buildRegistryList("{f}")}, {Submits("DeleteRegistry", deleteRegistry(at))})

CreateBuildRegistryPage(at) ==
  NoQueries({Submits("CreateBuildRegistryForm", createBuildRegistry(at))})

EditBuildRegistryPage(at) ==
  Shows({buildRegistrySingle(at.id)}, {Submits("EditBuildRegistryForm", updateRegistry(at))})

BuildRegistryImageListPage(at) ==
  Within(Page({buildRegistrySingle(at.id)}, {}, {}),
         Shows({buildRegistryImageList(at.id, "{f}")}, {}))

-----------------------------------------------------------------------------
\* routes.ts: the layouts around each page

InProject(at, page)     == Within(ProjectLayout(at), page)
InEnvironment(at, page) == Within(EnvironmentLayout(at), page)
InService(at, page)     == Within(ServiceDetailsLayout(at), page)
InDeployment(at, page)  == Within(DeploymentLayoutPage(at), page)
InStack(at, page)       == Within(ComposeStackLayoutPage(at), page)
InStackService(at, page) == Within(ComposeStackServiceLayoutPage(at), page)
InStackDeployment(at, page) == Within(ComposeStackDeploymentLayoutPage(at), page)

routes(at) ==
     "dashboard" :> Dashboard
  @@ "review-deployment" :> ReviewEnvDeploymentPage(at)
  @@ "create-project" :> CreateProjectPage(at)
  @@ "account-settings" :> UserSettingsPage(at)
  @@ "change-password" :> ChangePasswordPage(at)
  @@ "ssh-keys-list" :> SSHKeysPage(at)
  @@ "create-ssh-key" :> CreateSSHKeyPage(at)
  @@ "server-terminal" :> ServerTerminalPage(at)
  @@ "git-apps-list" :> GitConnectorsListPage(at)
  @@ "create-github-app" :> CreateGithubAppPage(at)
  @@ "create-gitlab-app" :> CreateGitlabAppPage(at)
  @@ "gitlab-app-details" :> GitlabAppDetailsPage(at)
  @@ "registry-credentials-list" :> ContainerRegistryCredentialsPage(at)
  @@ "create-registry-credentials" :> CreateRegistryCredentialsPage(at)
  @@ "registry-credentials-details" :> ContainerRegistryCredentialDetailsPage(at)
  @@ "build-registry-list" :> BuildRegistryListPage(at)
  @@ "create-build-registry" :> CreateBuildRegistryPage(at)
  @@ "build-registry-image-list" :> BuildRegistryImageListPage(at)
  @@ "build-registry-details" :> EditBuildRegistryPage(at)
  @@ "project-settings" :> InProject(at, ProjectSettingsPage(at))
  @@ "project-environments" :> InProject(at, ProjectEnvironmentsPage(at))
  @@ "preview-templates" :> InProject(at, PreviewTemplatesPage(at))
  @@ "create-preview-template" :> InProject(at, CreatePreviewTemplatePage(at))
  @@ "preview-template-details" :> InProject(at, PreviewTemplateDetailsPage(at))
  @@ "environment-service-list" :> InEnvironment(at, EnvironmentServiceListPage(at))
  @@ "environment-variables" :> InEnvironment(at, EnvironmentVariablesPage(at))
  @@ "environments-settings" :> InEnvironment(at, EnvironmentSettingsPage(at))
  @@ "create-service" :> CreateServicePage(at)
  @@ "create-docker-service" :> CreateDockerServicePage(at)
  @@ "create-public-git-service" :> CreatePublicGitServicePage(at)
  @@ "create-private-git-service" :> CreatePrivateGitServicePage(at)
  @@ "create-git-service-from-gitapp" :> CreateGitServiceFromGitHubPage(at)
  @@ "services-deployment-list" :> InService(at, DeploymentListPage(at))
  @@ "services-env-variables" :> InService(at, ServiceEnvVariablesPage(at))
  @@ "service-settings" :> InService(at, ServiceSettingsPage(at))
  @@ "service-http-logs" :> InService(at, ServiceHttpLogsPage(at))
  @@ "service-metrics" :> InService(at, ServiceMetricsPage(at))
  @@ "deployment-logs" :> InDeployment(at, DeploymentLogsPage)
  @@ "deployment-details" :> InDeployment(at, DeploymentDetailsPage(at))
  @@ "deployment-terminal" :> InDeployment(at, DeploymentTerminalPage)
  @@ "deployment-http-logs" :> InDeployment(at, DeploymentHttpLogsPage(at))
  @@ "deployment-build-logs" :> InDeployment(at, DeploymentBuildLogsPage)
  @@ "deployment-metrics" :> InDeployment(at, DeploymentMetricsPage(at))
  @@ "create-compose-stack" :> CreateComposeStackPage(at)
  @@ "create-compose-stack-from-contents" :> CreateComposeStackFromContentsPage(at)
  @@ "create-compose-stack-from-dokploy" :> CreateComposeStackFromDokployPage(at)
  @@ "compose-stack-template-list" :> ComposeStackTemplateListPage(at)
  @@ "create-compose-stack-from-template" :> CreateComposeStackFromTemplatePage(at)
  @@ "compose-stack-service-list" :> InStack(at, ComposeStackServicesPage(at))
  @@ "compose-stack-settings" :> InStack(at, ComposeStackSettingsPage(at))
  @@ "compose-stack-http-logs" :> InStack(at, ComposeStackHttpLogsPage(at))
  @@ "compose-stack-metrics" :> InStack(at, ComposeStackMetricsPage(at))
  @@ "compose-stack-deployment-list" :> InStack(at, ComposeStackDeploymentListPage(at))
  @@ "compose-stack-service-replicas" :> InStackService(at, ComposeStackServiceReplicasPage(at))
  @@ "compose-stack-service-runtime-logs" :> InStackService(at, ComposeStackRuntimeLogsPage(at))
  @@ "compose-stack-service-terminal" :> InStackService(at, ComposeStackServiceTerminalPage(at))
  @@ "compose-stack-service-http-logs" :> InStackService(at, ComposeStackServiceHttpLogsPage(at))
  @@ "compose-stack-service-metrics" :> InStackService(at, ComposeStackServiceMetricsPage(at))
  @@ "compose-stack-service-details" :> InStackService(at, ComposeStackServiceDetailsPage(at))
  @@ "compose-stack-deployment-logs" :> InStackDeployment(at, ComposeStackDeploymentLogsPage)
  @@ "compose-stack-deployment-details" :> InStackDeployment(at, ComposeStackDeploymentDetailsPage(at))

Pages == DOMAIN routes(Here)

\* Around every signed-in page.
Frame == Within(DashboardLayout, CommandMenuSearchbar)
=============================================================================
