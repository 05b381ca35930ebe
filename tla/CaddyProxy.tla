----------------------------- MODULE CaddyProxy -----------------------------
(***************************************************************************)
(* The list of routes of the Caddy proxy, which the activities of services *)
(* and stacks and the workflows of registries all rewrite.  A writer reads *)
(* the list with its etag and sends the whole list back on the condition   *)
(* that the etag is still that of the list, with a few attempts; routes    *)
(* are deleted one by one, on that condition or on none.                   *)
(*                                                                         *)
(* The etag of Caddy is a hash of what was read: what was read stands for  *)
(* it.  That of one route also covers its place in the list, which other   *)
(* writers move.  An error that is no failed condition counts as a success *)
(* in the code and is left out.                                            *)
(***************************************************************************)
EXTENDS Naturals, FiniteSetsExt

CONSTANTS
  Services, Stacks, Registries,  \* the owners of routes
  Urls,                          \* a route is identified by its owner and URL
  MaxProxyRequests,              \* deployments, archives and so on, at most
  MaxProxyRuns                   \* runs of an activity before it fails for good

Owners == Services \cup Stacks \cup Registries

ASSUME ProxyBounds == MaxProxyRequests \in Nat /\ MaxProxyRuns \in Nat \ {0}

VARIABLES
  table,   \* the routes: [owner, url, version]
  ours,    \* what the table has of each owner according to what that owner did
  client   \* the requests of each owner, which come one after the other

proxyVars == <<table, ours, client>>

MAX_ETAG_ATTEMPTS == 3

Route == [owner : Owners, url : Urls, version : Nat]
RoutesOf(o) == {r \in table : r.owner = o}
NoRead == {"nothing"}
NoUrl == "none"

ASSUME NoUrlIsNone == NoUrl \notin Urls

NewClient ==
  [step |-> "idle",    \* where the request is
   version |-> 0,      \* how many requests there were
   goal |-> {},        \* the URLs that the owner is to have
   left |-> {},        \* those that remain to insert or to delete
   url |-> NoUrl,      \* the one that is under way
   seen |-> NoRead,    \* the list when its etag was read
   attempts |-> 0,     \* those made for it
   beaten |-> 0,       \* writes of others since its first attempt, up to the number of attempts
   runs |-> 0]         \* of the activity

\* The id of the route of a registry is the registry's, whatever its URL is.
SameId(r, o, u) == r.owner = o /\ (r.url = u \/ o \in Registries)

ProxyTypeOK ==
  /\ table \subseteq Route
  /\ \A r, s \in table : SameId(r, s.owner, s.url) => r = s
  /\ \A o \in Owners : client[o].attempts <= MAX_ETAG_ATTEMPTS /\ client[o].runs <= MaxProxyRuns

ProxyInit ==
  table = {} /\ ours = [o \in Owners |-> {}] /\ client = [o \in Owners |-> NewClient]

-----------------------------------------------------------------------------
\* The list rs with the route of the client at its URL, and without it.
Drop(rs, o, u) == {r \in rs : ~SameId(r, o, u)}
Put(rs, o, u) == Drop(rs, o, u) \cup {[owner |-> o, url |-> u, version |-> client[o].version]}

Goto(o, c) == client' = [client EXCEPT ![o] = c] /\ UNCHANGED <<table, ours>>

\* The client of o goes on as c once it has written the list rs; calls in progress of
\* others have one more write to reckon with.
Write(o, rs, own, c) ==
  /\ table' = rs
  /\ ours' = [ours EXCEPT ![o] = own]
  /\ client' =
       [p \in Owners |->
          IF p = o THEN c
          ELSE IF client[p].attempts > 0 /\ client[p].beaten < MAX_ETAG_ATTEMPTS
          THEN [client[p] EXCEPT !.beaten = @ + 1]
          ELSE client[p]]

\* The next URL of the request.
NextUrl(c) ==
  [c EXCEPT !.left = @ \ {c.url}, !.url = NoUrl, !.seen = NoRead, !.attempts = 0, !.beaten = 0]

\* A failed condition: another attempt from the step, or ZaneProxyEtagError.
Refused(o, step) ==
  Goto(o, [client[o] EXCEPT !.step = IF client[o].attempts < MAX_ETAG_ATTEMPTS
                                     THEN step ELSE "error"])

\* Faulty variant: Caddy is told no etag.
Unconditional(seen) == TRUE

IfMatch(seen) == table = seen

\* A deployment with the URLs of its snapshot, or an archive.
RequestRoutes(o) ==
  /\ client[o].step \in {"idle", "done", "failed"}
  /\ MapThenSumSet(LAMBDA p : client[p].version, Owners) < MaxProxyRequests
  /\ \E goal \in SUBSET Urls :
       /\ o \in Registries => \A u, v \in goal : u = v
       /\ Goto(o, [NewClient EXCEPT !.step = "start", !.version = client[o].version + 1,
                                    !.goal = goal])

\* The activity, when it is run and when it is run again.  That of a registry first
\* looks whether the route exists, and keeps the etag that it gets then.
StartActivity(o) ==
  LET c == client[o]
      begun == [NewClient EXCEPT !.version = c.version, !.goal = c.goal, !.runs = c.runs + 1]
  IN  /\ c.step = "start"
      /\ Goto(o,
           IF c.goal # {}
           THEN IF o \in Registries /\ RoutesOf(o) # {}
                THEN [begun EXCEPT !.step = "replace", !.left = c.goal, !.seen = table]
                ELSE [begun EXCEPT !.step = "insert", !.left = c.goal]
           ELSE IF o \in Services
                THEN [begun EXCEPT !.step = "remove", !.left = Urls]
                ELSE [begun EXCEPT !.step = "list"])

Attempt(c, u) == [c EXCEPT !.url = u, !.attempts = @ + 1, !.seen = table]

Current(c) == IF c.url = NoUrl THEN c.left ELSE {c.url}

\* upsert_service_url and its like for stacks and new registries read the list at each
\* attempt.
ReadRoutes(o) ==
  LET c == client[o]
  IN  /\ c.step = "insert"
      /\ IF c.left = {}
         THEN Goto(o, [c EXCEPT !.step = IF o \in Registries THEN "done" ELSE "list"])
         ELSE \E u \in Current(c) : Goto(o, [Attempt(c, u) EXCEPT !.step = "patch"])

PatchRoutes(o) ==
  LET c == client[o]
  IN  /\ c.step = "patch"
      /\ IF IfMatch(c.seen)
         THEN Write(o, Put(c.seen, o, c.url), Put(ours[o], o, c.url),
                    [NextUrl(c) EXCEPT !.step = "insert"])
         ELSE Refused(o, "insert")

\* The etag of one route still holds, or its place in the list has moved.
PatchRegistry(o) ==
  LET c == client[o]
      attempt == [c EXCEPT !.attempts = @ + 1]
  IN  /\ c.step = "replace"
      /\ \E u \in c.left :
           \/ Write(o, Put(table, o, u), Put(ours[o], o, u), [c EXCEPT !.step = "done"])
           \/ ~IfMatch(c.seen)
              /\ Goto(o, [attempt EXCEPT !.step = IF attempt.attempts < MAX_ETAG_ATTEMPTS
                                                  THEN "replace" ELSE "error"])

\* remove_service_url reads the route and deletes it while its etag holds.
ReadRoute(o) ==
  LET c == client[o]
  IN  /\ c.step = "remove"
      /\ IF c.left = {} THEN Goto(o, [c EXCEPT !.step = "done"])
         ELSE \E u \in Current(c) :
                IF \E r \in table : SameId(r, o, u)
                THEN Goto(o, [Attempt(c, u) EXCEPT !.step = "delete"])
                ELSE Goto(o, NextUrl([c EXCEPT !.url = u]))

DeleteRoute(o) ==
  LET c == client[o]
  IN  /\ c.step = "delete"
      /\ \/ Write(o, Drop(table, o, c.url), Drop(ours[o], o, c.url),
                  [NextUrl(c) EXCEPT !.step = "remove"])
         \/ ~IfMatch(c.seen) /\ Refused(o, "remove")

\* The cleanup of old URLs, or of all of them, lists the routes once, and deletes those
\* that are too many without a condition.  remove_build_registry_url deletes its route.
ListRoutes(o) ==
  LET c == client[o]
  IN  /\ c.step = "list"
      /\ Goto(o, [c EXCEPT !.step = "purge",
                           !.left = {r.url : r \in RoutesOf(o)} \ c.goal])

Purge(o) ==
  LET c == client[o]
  IN  /\ c.step = "purge"
      /\ IF c.left = {} THEN Goto(o, [c EXCEPT !.step = "done"])
         ELSE \E u \in c.left :
                Write(o, Drop(table, o, u), Drop(ours[o], o, u), [c EXCEPT !.left = @ \ {u}])

\* The activity is run again, a few times.
RunAgain(o) ==
  /\ client[o].step = "error"
  /\ Goto(o, [client[o] EXCEPT !.step = IF client[o].runs < MaxProxyRuns THEN "start" ELSE "failed"])

ProxyNext ==
  \E o \in Owners :
    \/ RequestRoutes(o) \/ StartActivity(o) \/ ReadRoutes(o) \/ PatchRoutes(o)
    \/ PatchRegistry(o) \/ ReadRoute(o) \/ DeleteRoute(o) \/ ListRoutes(o) \/ Purge(o)
    \/ RunAgain(o)

ProxySpec == ProxyInit /\ [][ProxyNext]_proxyVars

-----------------------------------------------------------------------------
\* The proxy has of every owner the routes that this owner put there and did not
\* delete, whoever else writes the list at the same time.
OthersKept == \A o \in Owners : RoutesOf(o) = ours[o]

\* A request that succeeds leaves its URLs, with its version, and no other.
RequestServed ==
  \A o \in Owners : client[o].step = "done" =>
    RoutesOf(o) = [owner : {o}, url : client[o].goal, version : {client[o].version}]

\* A call gives up only after as many writes of others as it made attempts; only that
\* of a registry that has a route gives up after one, as it keeps its first etag.
BeatenEachTime ==
  \A o \in Owners \ Registries : client[o].step = "error" => client[o].beaten = MAX_ETAG_ATTEMPTS

\* The list has one route under an id, and survives its concurrent writers.
ProxyInv == ProxyTypeOK /\ OthersKept /\ RequestServed /\ BeatenEachTime
=============================================================================
