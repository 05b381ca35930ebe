---------------------------- MODULE MCQueryCache ----------------------------
EXTENDS QueryRules

\* The forms of the layouts are submitted from one of the pages inside them.
InLayout == {"services-env-variables", "service-metrics", "deployment-details",
             "compose-stack-service-list", "compose-stack-service-details",
             "compose-stack-deployment-details"}

Everywhere ==
  LET pages == Site[Here]
      OnePage(f) == \A n, m \in Pages : f \in pages[n].forms /\ f \in pages[m].forms => n = m
  IN  {<<"dashboard", f>> : f \in Frame.forms} \cup
      UNION {{<<n, f>> : f \in {f \in pages[n].forms : n \in InLayout \/ OnePage(f)}} : n \in Pages}

VisitedPages ==
  {"dashboard", "environment-service-list", "environments-settings", "project-environments",
   "services-deployment-list", "service-settings", "deployment-details",
   "compose-stack-service-list", "compose-stack-deployment-list", "preview-templates",
   "ssh-keys-list", "git-apps-list", "registry-credentials-list", "build-registry-list",
   "account-settings"}
=============================================================================
