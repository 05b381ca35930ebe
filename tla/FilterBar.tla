------------------------------ MODULE FilterBar ------------------------------
(***************************************************************************)
(* The filters of a list of the web application: a text to search, options *)
(* to choose, pages, and the URL that holds them and that the list is      *)
(* queried from.                                                           *)
(*                                                                         *)
(* A component that changes a filter has its own copy of the URL's         *)
(* parameters (useSearchParams).  It changes that copy in place and        *)
(* navigates to it; the URL only changes when the loaders of the page have *)
(* run, unless another navigation comes first, and the copies are made     *)
(* again when it does.  The text is an uncontrolled input, whose changes   *)
(* are applied after 300 ms without another one.  HTTP logs show a filter  *)
(* when the user adds it ("chips").                                        *)
(*                                                                         *)
(* What React, React Router and use-debounce do is modelled from its use.  *)
(***************************************************************************)
EXTENDS Naturals, FiniteSets

CONSTANTS
  Bars,       \* the bars to follow
  MaxInputs   \* how many inputs the user makes, at most


VARIABLES
  bar,      \* the bar
  url,      \* the parameters in the URL
  nav,      \* those of the navigation under way, or NoNav
  params,   \* the copies of the components: "header", "filter"
  text,     \* what the text input holds
  due,      \* the text that the debounced call is to apply, or NoText
  chips,    \* the filters that are shown, where the user adds them
  wish,     \* the options that the user chose
  raced,    \* what happened while a call or a navigation was under way
  inputs    \* how many inputs the user made

barVars == <<bar, url, nav, params, text, due, chips, wish, raced, inputs>>

-----------------------------------------------------------------------------
\* The bars:
\*   search    when a text is applied: "later", "later if new" (compared with the one
\*             in the URL), "now", or "no" without a text;
\*   synced    whether the input is set again when the text in the URL changes;
\*   chips     whether the user adds and removes filters;
\*   options   how the options are chosen;
\*   pages     whether the list has pages;
\*   restarts  whether a search goes back to the first page;
\*   resets    whether a button clears all of them.

\* How the options are chosen: "toggle" with the parameters of the bar, "all" also all of
\* them or none at once, "own" with parameters that the component has of its own.
MultiSelect == "toggle"
TagsListForm == "toggle"
DeploymentStatusesMultiSelect == "all"
StackDeploymentStatusesMultiSelect == "all"
serviceHttpLogFilters == "own"
deploymentHttpLogFilters == "own"
stackHttpLogFilters == "own"
stackServiceHttpLogFilters == "own"

Bar(search) ==
  [search |-> search, synced |-> FALSE, chips |-> FALSE, options |-> MultiSelect,
   pages |-> FALSE, restarts |-> FALSE, resets |-> TRUE]

deploymentLogsHeader == Bar("later if new")
runtimeLogsHeader == Bar("later if new")

HttpLogsHeader(filters) ==
  [Bar("later if new") EXCEPT !.chips = TRUE, !.options = filters]
serviceHttpLogsHeader == HttpLogsHeader(serviceHttpLogFilters)
deploymentHttpLogsHeader == HttpLogsHeader(deploymentHttpLogFilters)
stackHttpLogsHeader == HttpLogsHeader(stackHttpLogFilters)
stackServiceHttpLogsHeader == HttpLogsHeader(stackServiceHttpLogFilters)

ProjectsListSection == [Bar("later") EXCEPT !.synced = TRUE]
EnvironmentLayout == [Bar("later") EXCEPT !.synced = TRUE, !.options = "none"]

TemplateSearchList ==
  [Bar("now") EXCEPT !.options = TagsListForm, !.pages = TRUE, !.restarts = TRUE,
                     !.resets = FALSE]

DeploymentListPage ==
  [Bar("no") EXCEPT !.options = DeploymentStatusesMultiSelect, !.pages = TRUE]
ComposeStackDeploymentListPage ==
  [Bar("no") EXCEPT !.options = StackDeploymentStatusesMultiSelect, !.pages = TRUE]

BarType ==
  [search : {"later", "later if new", "now", "no"}, synced : BOOLEAN, chips : BOOLEAN,
   options : {"toggle", "all", "own", "none"}, pages : BOOLEAN, restarts : BOOLEAN,
   resets : BOOLEAN]

\* A list with pages goes back to the first one when it is searched.
ASSUME BarBounds ==
  /\ MaxInputs \in Nat
  /\ \A b \in Bars : b \in BarType /\ (b.pages /\ b.search # "no" => b.restarts)

Options == {"x", "y"}
Texts   == {"", "a", "b"}
NoText  == "none"

Blank == [query |-> NoText, filter |-> {}, page |-> 1, perPage |-> 1]
NoNav == [Blank EXCEPT !.page = 0]

Params == [query : Texts \cup {NoText}, filter : SUBSET Options, page : 1..2, perPage : 1..2]

\* The filters that the parameters hold, and what the input shows of them.
Filters(p) ==
  (IF p.query = NoText THEN {} ELSE {"query"}) \cup (IF p.filter = {} THEN {} ELSE {"filter"})
QueryOf(p) == IF p.query = NoText THEN "" ELSE p.query

\* The list has two entries, and one when it is filtered.
PageCount(p) ==
  IF p.perPage = 2 \/ p.filter # {} \/ QueryOf(p) # "" THEN 1 ELSE 2

InputShown == bar.search # "no" /\ (bar.chips => "query" \in chips)

FilterTypeOK ==
  /\ bar \in Bars
  /\ url \in Params /\ nav \in Params \cup {NoNav}
  /\ \A c \in {"header", "filter"} : params[c] \in Params
  /\ text \in Texts /\ due \in Texts \cup {NoText}
  /\ chips \subseteq {"query", "filter"} /\ wish \subseteq Options
  /\ raced \subseteq {"reverted", "undone", "overtaken", "stale", "kept"}
  /\ inputs \in 0..MaxInputs

FilterInit ==
  /\ bar \in Bars
  /\ url = Blank /\ nav = NoNav
  /\ params = [c \in {"header", "filter"} |-> Blank]
  /\ text = "" /\ due = NoText /\ chips = {}
  /\ wish = {} /\ raced = {} /\ inputs = 0

-----------------------------------------------------------------------------
Input == inputs < MaxInputs /\ inputs' = inputs + 1

\* What a component read in its last rendering: a rendering since its copy changed,
\* for another reason, shows the copy.
Rendered == {url, params["header"]}

\* A component navigates while the navigation of another one is under way.
Overtaking(component) == IF nav # NoNav /\ nav # params[component] THEN {"overtaken"} ELSE {}

\* The copy of a component becomes p, and the page navigates to it.
setSearchParams(component, p) ==
  /\ params' = [params EXCEPT ![component] = p]
  /\ nav' = p

\* The debounced call of a text that is removed is not cancelled.
Undone == IF due # NoText THEN {"undone"} ELSE {}

\* The loaders of the page have run.  A filter that was added and has no value yet goes
\* away when the URL changes.
Commit ==
  /\ nav # NoNav
  /\ url' = nav /\ nav' = NoNav
  /\ IF nav = url
     THEN UNCHANGED <<params, text, chips, raced>>
     ELSE /\ params' = [c \in DOMAIN params |-> nav]
          /\ chips' = IF bar.chips THEN Filters(nav) ELSE chips
          /\ text' = IF bar.chips /\ "query" \notin Filters(nav) THEN ""
                     ELSE IF \/ bar.chips /\ "query" \notin chips
                             \/ bar.synced /\ QueryOf(nav) # QueryOf(url)
                          THEN QueryOf(nav) ELSE text
          /\ raced' = raced \cup
               (IF bar.chips /\ "query" \in chips \ Filters(nav) THEN Undone ELSE {})
  /\ UNCHANGED <<bar, due, wish, inputs>>

-----------------------------------------------------------------------------
\* The text

\* The text searched for, and the first page of what it finds.
Searched(p, t) == [p EXCEPT !.query = t, !.page = IF bar.restarts THEN 1 ELSE @]

onChange(t) ==
  /\ InputShown /\ t # text /\ Input
  /\ text' = t
  /\ IF bar.search = "now"
     THEN /\ setSearchParams("header", Searched(params["header"], t))
          /\ raced' = raced \cup Overtaking("header")
          /\ UNCHANGED due
     ELSE /\ \E seen \in Rendered :
               IF bar.search = "later" \/ t # QueryOf(seen)
               THEN due' = t /\ UNCHANGED raced
               ELSE /\ due' = due
                    /\ raced' = raced \cup
                         (IF due # NoText \/ t # QueryOf(IF nav = NoNav THEN url ELSE nav)
                          THEN {"reverted"} ELSE {})
          /\ UNCHANGED <<params, nav>>
  /\ UNCHANGED <<bar, url, chips, wish>>

\* Faulty variant: applies the text of the URL.
searchForNothing ==
  /\ due # NoText
  /\ due' = NoText
  /\ setSearchParams("header", Searched(params["header"], url.query))
  /\ raced' = raced \cup Overtaking("header")
  /\ UNCHANGED <<bar, url, text, chips, wish, inputs>>

\* useDebouncedCallback: the function of the last rendering is called.
searchForQuery ==
  /\ due # NoText
  /\ due' = NoText
  /\ setSearchParams("header", Searched(params["header"], due))
  /\ raced' = raced \cup Overtaking("header")
  /\ UNCHANGED <<bar, url, text, chips, wish, inputs>>

-----------------------------------------------------------------------------
\* The options and the pages

toggleOption(o) == [S \in SUBSET Options |-> IF o \in S THEN S \ {o} ELSE S \cup {o}]
toggleAll == [S \in SUBSET Options |-> IF S = Options THEN {} ELSE Options]

\* The options of the last rendering, with the change that the user makes, which is to
\* the options that he chose.
onValueChange(changed) ==
  /\ bar.options # "none" /\ (bar.chips => "filter" \in chips)
  /\ Input
  /\ LET component == IF bar.options = "own" THEN "filter" ELSE "header"
         own == params[component]
     IN \E seen \in Rendered :
          /\ setSearchParams(component, [own EXCEPT !.filter = changed[seen.filter]])
          /\ raced' = raced \cup Overtaking(component)
               \cup (IF seen.filter # wish THEN {"stale"} ELSE {})
               \cup (IF own.page > 1 THEN {"kept"} ELSE {})
  /\ wish' = changed[wish]
  /\ UNCHANGED <<bar, url, text, due, chips>>

ToggleOption == \E o \in Options : onValueChange(toggleOption(o))
ToggleAll    == bar.options = "all" /\ onValueChange(toggleAll)

\* Pagination
onChangePage(n) ==
  /\ bar.pages /\ n <= PageCount(url) /\ n # url.page /\ Input
  /\ setSearchParams("header", [params["header"] EXCEPT !.page = n])
  /\ raced' = raced \cup (IF nav # NoNav THEN {"overtaken"} ELSE {})
  /\ UNCHANGED <<bar, url, text, due, chips, wish>>

onChangePerPage(n) ==
  /\ bar.pages /\ n # url.perPage /\ Input
  /\ setSearchParams("header", [params["header"] EXCEPT !.page = 1, !.perPage = n])
  /\ raced' = raced \cup Overtaking("header")
  /\ UNCHANGED <<bar, url, text, due, chips, wish>>

-----------------------------------------------------------------------------
\* Adding and removing filters

AddFilter(f) ==
  /\ bar.chips /\ f \notin chips /\ Input
  /\ chips' = chips \cup {f}
  /\ \E seen \in Rendered : text' = IF f = "query" THEN QueryOf(seen) ELSE text
  /\ UNCHANGED <<bar, url, nav, params, due, wish, raced>>

RemoveFilter(f) ==
  /\ bar.chips /\ f \in chips /\ Input
  /\ chips' = chips \ {f}
  /\ setSearchParams("header", [params["header"] EXCEPT ![f] = Blank[f]])
  /\ raced' = raced \cup Overtaking("header") \cup (IF f = "query" THEN Undone ELSE {})
  /\ IF f = "query" THEN text' = "" /\ UNCHANGED wish ELSE wish' = {} /\ UNCHANGED text
  /\ UNCHANGED <<bar, url, due>>

\* The copies, and an input that follows the URL, are only cleared when the URL changes,
\* which a clearing that takes over another navigation may not do.
clearFilters ==
  /\ bar.resets /\ (\E seen \in Rendered : Filters(seen) # {})
  /\ Input
  /\ nav' = Blank /\ chips' = {} /\ wish' = {}
  /\ text' = IF bar.synced THEN text ELSE ""
  /\ raced' = raced \cup Undone
       \cup (IF nav # NoNav THEN {"overtaken"} ELSE {})
  /\ UNCHANGED <<bar, url, params, due>>

FilterNext ==
  \/ Commit \/ searchForQuery \/ clearFilters
  \/ \E t \in Texts : onChange(t)
  \/ ToggleOption \/ ToggleAll
  \/ \E n \in 1..2 : onChangePage(n) \/ onChangePerPage(n)
  \/ \E f \in {"query", "filter"} : AddFilter(f) \/ RemoveFilter(f)

FilterSpec == FilterInit /\ [][FilterNext]_barVars

-----------------------------------------------------------------------------
\* Nothing is under way.
Settled == nav = NoNav /\ due = NoText

\* What the list is searched for is what the input says, unless the user typed back
\* the text of the URL while another was to be applied (which is then applied), or
\* removed a text that was to be applied, or a navigation took over another.
QueryFollowsText ==
  Settled /\ InputShown /\ raced \cap {"reverted", "undone", "overtaken"} = {}
    => QueryOf(url) = text

\* The options in the URL are those that the user chose, unless a navigation took
\* over another or a choice was made before the page showed the one before it.
OptionsFollowChoice ==
  Settled /\ raced \cap {"overtaken", "stale"} = {} => url.filter = wish

\* A filter in the URL is one that the user sees and can remove, unless a navigation
\* took over the one that cleared the filters, or a text that was to be applied did.
FilterShown ==
  Settled /\ bar.chips /\ raced \cap {"overtaken", "undone"} = {} => Filters(url) \subseteq chips

\* The page in the URL exists, unless an option was chosen on a later page than the
\* first: it is not reset then, and the list of deployments is not found.
PageExists == Settled /\ raced = {} => url.page <= PageCount(url)

\* The inputs of the bar, the URL and the list agree once nothing is under way.
FilterInv ==
  FilterTypeOK /\ QueryFollowsText /\ OptionsFollowChoice /\ FilterShown /\ PageExists
=============================================================================
