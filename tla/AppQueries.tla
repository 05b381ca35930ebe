----------------------------- MODULE AppQueries -----------------------------
(***************************************************************************)
(* The queries of the web application (frontend lib/queries.ts): one       *)
(* operator per query factory of the file.  A query is                     *)
(*                                                                         *)
(*   key    its key in the query cache, a sequence built as in the code    *)
(*          by extending the key of a parent query; "{}" is an empty       *)
(*          filter object and "{f}" a filter object of a page;             *)
(*   path   the objects its URL names, as <<kind, slug>> pairs: the API    *)
(*          answers 404 when one of them does not exist, and the query     *)
(*          function throws notFound;                                      *)
(*   reads  the kinds of server data its answer shows;                     *)
(*   polls  whether refetchInterval refetches it while it is mounted and   *)
(*          has data.                                                      *)
(*                                                                         *)
(* The infinite queries of the logs are in LogFeed.                        *)
(***************************************************************************)
EXTENDS Naturals, Sequences

Query(key, path, reads, polls) ==
  [key |-> key, path |-> path, reads |-> reads, polls |-> polls]

\* A query that extends the key and the path of another one.
Below(q, suffix, objects, reads, polls) ==
  Query(q.key \o suffix, q.path \cup objects, reads, polls)

-----------------------------------------------------------------------------
\* Users and server

authedUser         == Query(<<"AUTHED_USER">>, {}, {"User"}, TRUE)
checkUserExistence == Query(<<"CHECK_USER_EXISTENCE">>, {}, {"UserExists"}, FALSE)
settings           == Query(<<"APP_SETTINGS">>, {}, {}, FALSE)
resourceLimits     == Query(<<"SERVICE_RESOURCE_LIMITS">>, {}, {}, FALSE)
ongoingUpdate      == Query(<<"ONGOING_UPDATE">>, {}, {"Update"}, FALSE)
latest             == Query(<<"LATEST_RELEASE">>, {}, {}, TRUE)

\* The resources by name, whatever their kind.
search(f) == Query(<<"RESOURCES", f>>, {}, {"Names"}, FALSE)

-----------------------------------------------------------------------------
\* Projects and environments

projectList(f) == Query(<<"PROJECT_LIST", f>>, {}, {"Project"}, TRUE)

projectSingle(p) ==
  Query(<<"PROJECT_SINGLE", p>>, {<<"Project", p>>}, {"Project", "EnvName"}, FALSE)

environmentSingle(p, e) ==
  Below(projectSingle(p), <<e>>, {<<"Env", e>>}, {"Env"}, TRUE)

serviceList(p, e, f) ==
  Below(environmentSingle(p, e), <<"SERVICE_LIST", f>>, {}, {"Service", "Deployment"}, TRUE)

composeStackList(p, e, f) ==
  Below(environmentSingle(p, e), <<"COMPOSE_STACK_LIST", f>>, {}, {"Stack"}, TRUE)

pendingReview(p, e) ==
  Below(projectSingle(p), <<e, "PENDING_REVIEW">>, {<<"Env", e>>}, {"Review"}, TRUE)

previewTemplateList(p) ==
  Below(projectSingle(p), <<"PREVIEW_TEMPLATES">>, {}, {"Template"}, TRUE)

previewTemplateSingle(p, t) ==
  Below(previewTemplateList(p), <<t>>, {<<"Template", t>>}, {"Template"}, TRUE)

-----------------------------------------------------------------------------
\* Services and their deployments

serviceSingle(p, e, s) ==
  Below(projectSingle(p), <<e, "SERVICE_DETAILS", s>>,
        {<<"Env", e>>, <<"Service", s>>}, {"Service", "Env"}, TRUE)

serviceDeploymentList(p, e, s, f) ==
  Below(serviceSingle(p, e, s), <<"DEPLOYMENT_LIST", f>>, {}, {"Deployment"}, TRUE)

serviceMetrics(p, e, s, f) ==
  Below(serviceSingle(p, e, s), <<"METRICS", f>>, {}, {"Metrics"}, TRUE)

detectedPorts(p, e, s) ==
  Below(serviceSingle(p, e, s), <<"DETECTED_PORTS">>, {}, {"Deployment"}, TRUE)

availableVolumes(p, e, s) ==
  Below(serviceSingle(p, e, s), <<"AVAILABLE_VOLUMES_FOR_SHARING">>, {}, {"Siblings"}, FALSE)

serviceSingleHttpLog(p, e, s, r) ==
  Below(serviceSingle(p, e, s), <<"HTTP_LOGS", r>>, {}, {}, FALSE)

serviceFilterHttpLogFields(p, e, s, id, field) ==
  Below(serviceSingle(p, e, s), <<id, "HTTP_LOG_FIELDS", field>>, {}, {}, FALSE)

recentDeployments ==
  Query(<<"RECENT_DEPLOYMENTS">>, {}, {"Service", "Deployment"}, TRUE)

deploymentSingle(p, e, s, h) ==
  Below(serviceSingle(p, e, s), <<"DEPLOYMENTS", h>>, {<<"Deployment", h>>}, {"Deployment"}, TRUE)

deploymentMetrics(p, e, s, h, f) ==
  Below(deploymentSingle(p, e, s, h), <<"METRICS", f>>, {}, {"Metrics"}, TRUE)

deploymentSingleHttpLog(p, e, s, h, r) ==
  Below(deploymentSingle(p, e, s, h), <<"HTTP_LOGS", r>>, {}, {}, FALSE)

deploymentFilterHttpLogFields(p, e, s, h, field) ==
  Below(deploymentSingle(p, e, s, h), <<"HTTP_LOG_FIELDS", field>>, {}, {}, FALSE)

-----------------------------------------------------------------------------
\* Compose stacks

stackSingle(p, e, k) ==
  Below(projectSingle(p), <<e, "COMPOSE_STACK_DETAILS", k>>,
        {<<"Env", e>>, <<"Stack", k>>}, {"Stack"}, TRUE)

stackDeploymentList(p, e, k, f) ==
  Below(stackSingle(p, e, k), <<"DEPLOYMENT_LIST", f>>, {}, {"StackDeployment"}, TRUE)

stackDeployment(p, e, k, h) ==
  Below(stackDeploymentList(p, e, k, "{}"), <<"DETAILS", h>>,
        {<<"StackDeployment", h>>}, {"StackDeployment"}, TRUE)

stackMetrics(p, e, k, f) ==
  Below(stackSingle(p, e, k), <<"METRICS", f>>, {}, {"Metrics"}, TRUE)

stackSingleHttpLog(p, e, k, r) ==
  Below(stackSingle(p, e, k), <<"HTTP_LOGS", r>>, {}, {}, FALSE)

stackFilterHttpLogFields(p, e, k, id, field) ==
  Below(stackSingle(p, e, k), <<id, "HTTP_LOG_FIELDS", field>>, {}, {}, FALSE)

-----------------------------------------------------------------------------
\* Settings of the server

sshKeyList == Query(<<"SSH_KEYS">>, {}, {"SshKey"}, TRUE)

credentialsList == Query(<<"SHARED_REGISTRY_CREDENTIALS">>, {}, {"Credentials"}, TRUE)

credentialsSingle(id) ==
  Below(credentialsList, <<id>>, {<<"Credentials", id>>}, {"Credentials"}, TRUE)

gitAppList == Query(<<"GIT_APPS">>, {}, {"GitApp"}, TRUE)

gitAppSingle(id) == Below(gitAppList, <<id>>, {<<"GitApp", id>>}, {"GitApp"}, TRUE)

github(id) == Below(gitAppList, <<"GITHUB", id>>, {<<"GitApp", id>>}, {"GitApp"}, TRUE)

gitlab(id) == Below(gitAppList, <<"GITLAB", id>>, {<<"GitApp", id>>}, {"GitApp"}, TRUE)

gitRepositories(id, f) ==
  Below(gitAppSingle(id), <<"REPOSITORIES", f>>, {}, {"Repository"}, FALSE)

gitRepositoryBranches(url) ==
  Query(<<"GIT_REPOSITORY_BRANCHES", url>>, {}, {"Repository"}, FALSE)

buildRegistryList(f) == Query(<<"BUILD_REGISTRY_CREDENTIALS", f>>, {}, {"Registry"}, TRUE)

buildRegistrySingle(id) ==
  Query(<<"BUILD_REGISTRY_CREDENTIALS", id>>, {<<"Registry", id>>}, {"Registry"}, TRUE)

buildRegistryImageList(id, f) ==
  Below(buildRegistrySingle(id), <<"IMAGE_LIST", f>>, {}, {"Image"}, TRUE)

dockerHubImages(q) == Query(<<"DOCKER_HUB_IMAGES", q>>, {}, {}, FALSE)

templateSearch(f) == Query(<<"TEMPLATE_SEARCH", f>>, {}, {}, FALSE)

templateTags == Query(<<"TEMPLATE_SEARCH", "TAGS">>, {}, {}, FALSE)

templateSingle(t) == Query(<<"TEMPLATE_SEARCH", t>>, {}, {}, FALSE)

-----------------------------------------------------------------------------
\* Which cached queries a call of the query client names: invalidateQueries
\* and removeQueries take a key, exactly or as a prefix (an empty filter object
\* matches any filter object), or a predicate on the key.

Objects == {"{}", "{f}"}

\* invalidateQueries(query) and removeQueries({queryKey}): every key below it.
Prefix(q) == [how |-> "prefix", key |-> q.key]

\* invalidateQueries({...query, exact: true}).
Exactly(q) == [how |-> "exact", key |-> q.key]

\* invalidateQueries({predicate: query.queryKey[0] === root}); the predicates
\* with queryKey.includes(root) select the same keys, a root being first only.
Rooted(root) == [how |-> "prefix", key |-> <<root>>]

Matches(sel, q) ==
  IF sel.how = "exact"
  THEN q.key = sel.key
  ELSE /\ Len(sel.key) <= Len(q.key)
       /\ \A i \in 1..Len(sel.key) :
            \/ q.key[i] = sel.key[i]
            \/ sel.key[i] = "{}" /\ q.key[i] \in Objects
=============================================================================
