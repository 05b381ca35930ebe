----------------------------- MODULE ToggleToast -----------------------------
(***************************************************************************)
(* The buttons that start or stop a service, a stack or a service of a     *)
(* stack, each with the toast that follows what becomes of the request in  *)
(* the background: the ToggleServiceForm, ToggleStackForm and              *)
(* toggleStateToast functions of the frontend.                             *)
(*                                                                         *)
(* A press of the button is refused while the service is in the queue of   *)
(* toggled items, shared by all the pages of the tab.  It enters the queue *)
(* only when the request was answered, stays there as long as the toast    *)
(* polls the server, and leaves it however the polling ends.               *)
(*                                                                         *)
(* The module follows one service.  What TanStack Query and React Router   *)
(* do is modelled from its use here, and so is the server.                 *)
(***************************************************************************)
EXTENDS Naturals, Sequences, FiniteSets

CONSTANTS
  Buttons,     \* the buttons to follow
  MAX_TRIES,   \* how often a toast asks for the state (12 in the code)
  MaxCalls,    \* how often the button is pressed, at most
  MaxForms,    \* how many times a page with the button is shown, at most
  MaxChanges   \* how often the state changes on its own, at most

ASSUME ToggleBounds ==
  /\ Buttons \subseteq [guarded : BOOLEAN, catches : BOOLEAN]
  /\ MAX_TRIES \in Nat \ {0} /\ MaxCalls \in Nat /\ MaxForms \in Nat \ {0} /\ MaxChanges \in Nat

VARIABLES
  button,   \* the button
  state,    \* of the service: "start", "stop", "unset" (nothing to report), "gone"
  work,     \* the toggle that the server has accepted and not carried out
  changes,  \* how often the state changed on its own
  cache,    \* the state that the page has
  answer,   \* of the fetch in flight for that state, or "none"
  form,     \* which form is on the page
  queued,   \* whether the service is in the queue of toggled items
  calls     \* what was pressed, in order

serverVars == <<state, work, changes>>
toggleVars == <<button, serverVars, cache, answer, form, queued, calls>>

-----------------------------------------------------------------------------
\* The buttons: whether a press is prevented while the request is pending, and
\* whether the toast catches an error of its polling.

ToggleServiceForm == [guarded |-> TRUE, catches |-> FALSE]
ToggleStackForm == [guarded |-> TRUE, catches |-> TRUE]
ToggleStackServiceForm == [guarded |-> TRUE, catches |-> TRUE]
\* The form of the card has no button: the items of a menu submit it.
ToggleStackServiceCardForm == [guarded |-> FALSE, catches |-> TRUE]

Desired == {"start", "stop"}
States  == Desired \cup {"unset", "gone"}

\* Before the answer, and while the toast is loading.
ActionSteps  == {"waiting", "sent", "accepted", "refused", "invalidating", "returned"}
LoadingSteps == {"polling", "fetching", "pausing"}
EndSteps     == {"success", "warning", "left"}

Call(i) == calls[i]
InAction(i) == Call(i).step \in ActionSteps
Loading(i)  == Call(i).step \in LoadingSteps

ToggleTypeOK ==
  /\ button \in Buttons
  /\ state \in States /\ work \in Desired \cup {"none"} /\ changes \in 0..MaxChanges
  /\ cache \in States /\ answer \in States \cup {"none"}
  /\ form \in 1..MaxForms /\ queued \in BOOLEAN
  /\ \A i \in DOMAIN calls :
       /\ Call(i).form \in 1..MaxForms /\ Call(i).desired \in Desired
       /\ Call(i).step \in ActionSteps \cup LoadingSteps \cup EndSteps
       /\ Call(i).accepted \in BOOLEAN /\ Call(i).tries \in 0..MAX_TRIES
       /\ Call(i).seen \in BOOLEAN

ToggleInit ==
  /\ button \in Buttons
  /\ state \in Desired /\ work = "none" /\ changes = 0
  /\ cache = state /\ answer = "none"
  /\ form = 1 /\ queued = FALSE /\ calls = <<>>

-----------------------------------------------------------------------------
\* The server

\* Whether the service had the state that a call desires since it was sent.
Seen(s) ==
  [i \in DOMAIN calls |->
     [Call(i) EXCEPT !.seen = @ \/ (Call(i).step # "waiting" /\ s = Call(i).desired)]]

CarryOut ==
  /\ work # "none"
  /\ state' = IF state \in Desired THEN work ELSE state
  /\ work' = "none"
  /\ calls' = Seen(state')
  /\ UNCHANGED <<button, changes, cache, answer, form, queued>>

\* Deployments and other users; a service that is archived does not come back.
Change ==
  /\ changes < MaxChanges /\ state # "gone"
  /\ state' \in States \ {state} /\ changes' = changes + 1
  /\ calls' = Seen(state')
  /\ UNCHANGED <<button, work, cache, answer, form, queued>>

-----------------------------------------------------------------------------
\* The form

\* The button asks for the opposite of the state that the page has.
Opposite(s) == IF s = "start" THEN "stop" ELSE "start"

Press ==
  /\ Len(calls) < MaxCalls /\ cache \in Desired
  /\ button.guarded => \A i \in DOMAIN calls : InAction(i) => Call(i).form # form
  /\ ~queued
  /\ calls' = Append(calls, [form |-> form, desired |-> Opposite(cache), step |-> "waiting",
                             accepted |-> FALSE, tries |-> 0, seen |-> FALSE])
  /\ UNCHANGED <<button, serverVars, cache, answer, form, queued>>

\* The user goes to another page with a button for the service.
Leave ==
  /\ form < MaxForms
  /\ form' = form + 1
  /\ UNCHANGED <<button, serverVars, cache, answer, queued, calls>>

\* useActionState: the actions of a form run one after the other.
Send(i) ==
  /\ Call(i).step = "waiting"
  /\ \A j \in 1..i - 1 : InAction(j) => Call(j).form # Call(i).form
  /\ calls' = [calls EXCEPT ![i].step = "sent", ![i].seen = (state = Call(i).desired)]
  /\ UNCHANGED <<button, serverVars, cache, answer, form, queued>>

\* A toggle that is accepted while another one runs may have no effect.
Accept(i) ==
  /\ Call(i).step = "sent" /\ state \in Desired
  /\ work' \in {Call(i).desired} \cup ({work} \ {"none"})
  /\ calls' = [calls EXCEPT ![i].step = "accepted", ![i].accepted = TRUE]
  /\ UNCHANGED <<button, state, changes, cache, answer, form, queued>>

Refuse(i) ==
  /\ Call(i).step = "sent"
  /\ calls' = [calls EXCEPT ![i].step = "refused"]
  /\ UNCHANGED <<button, serverVars, cache, answer, form, queued>>

\* Faulty variant: does not wait for the state to be refetched.
clientActionOnly(i) ==
  /\ Call(i).step \in {"accepted", "refused"}
  /\ calls' = [calls EXCEPT ![i].step = "returned"]
  /\ UNCHANGED <<button, serverVars, cache, answer, form, queued>>

\* The client action: a success invalidates the query of the state, whose fetch in
\* flight is replaced, and waits for it.
clientAction(i) ==
  /\ \/ /\ Call(i).step = "accepted"
        /\ calls' = [calls EXCEPT ![i].step = "invalidating"]
        /\ answer' = state
     \/ /\ Call(i).step = "refused"
        /\ calls' = [calls EXCEPT ![i].step = "returned"]
        /\ UNCHANGED answer
  /\ UNCHANGED <<button, serverVars, cache, form, queued>>

\* The action of the form goes on, whatever the answer was, and the toast starts.
\* The one of a service ends at once when the page has no production deployment.
queueToggleItem(i) ==
  /\ Call(i).step = "returned"
  /\ LET idle == button = ToggleServiceForm /\ cache \notin Desired
     IN  /\ calls' = [calls EXCEPT ![i].step = IF idle THEN "warning" ELSE "polling"]
         /\ queued' = ~idle
  /\ UNCHANGED <<button, serverVars, cache, answer, form>>

-----------------------------------------------------------------------------
\* The toast: toggleStateToast

\* fetchQuery joins the fetch in flight.
Poll(i) ==
  /\ Call(i).step = "polling"
  /\ calls' = [calls EXCEPT ![i].step = "fetching", ![i].tries = @ + 1]
  /\ answer' = IF answer = "none" THEN state ELSE answer
  /\ UNCHANGED <<button, serverVars, cache, form, queued>>

\* Faulty variant: no toast catches an error.
FailedLeft == "left"

\* The toast is left loading by an error that it does not catch.
Failed == IF button.catches THEN "warning" ELSE "left"

Judge(call, s) ==
  IF s = call.desired THEN "success"
  ELSE IF s = "gone" THEN Failed
  ELSE IF s # "unset" /\ call.tries < MAX_TRIES THEN "pausing" ELSE "warning"

\* What the fetch brings to those who wait for it.
Told(call, s) ==
  CASE call.step = "fetching"     -> [call EXCEPT !.step = Judge(call, s)]
    [] call.step = "invalidating" -> [call EXCEPT !.step = "returned"]
    [] OTHER -> call

\* finally: the service leaves the queue.
dequeueToggleItem(told) ==
  queued' = (queued /\ ~\E i \in DOMAIN told : Loading(i) /\ told[i].step \in EndSteps)

Fetched(s) ==
  /\ answer # "none" /\ answer' = "none"
  /\ calls' = [i \in DOMAIN calls |-> Told(Call(i), s)]
  /\ dequeueToggleItem(calls')
  /\ UNCHANGED <<button, serverVars, form>>

Deliver ==
  /\ Fetched(answer)
  /\ cache' = IF answer = "gone" THEN cache ELSE answer

\* The request fails, which is to its readers as if the service were gone.
Fail ==
  /\ Fetched("gone")
  /\ UNCHANGED cache

wait(i) ==
  /\ Call(i).step = "pausing"
  /\ calls' = [calls EXCEPT ![i].step = "polling"]
  /\ UNCHANGED <<button, serverVars, cache, answer, form, queued>>

\* The page polls the state too.
Refetch ==
  /\ answer = "none"
  /\ answer' = state
  /\ UNCHANGED <<button, serverVars, cache, form, queued, calls>>

CallStep(i) ==
  \/ Send(i) \/ Accept(i) \/ Refuse(i) \/ clientAction(i) \/ queueToggleItem(i)
  \/ Poll(i) \/ wait(i)

ToggleNext ==
  \/ CarryOut \/ Change \/ Press \/ Leave
  \/ \E i \in DOMAIN calls : CallStep(i)
  \/ Deliver \/ Fail \/ Refetch

ToggleSpec == ToggleInit /\ [][ToggleNext]_toggleVars

\* Requests are answered, timers expire and handlers run on.
ToggleFairness ==
  /\ WF_toggleVars(Deliver \/ Fail)
  /\ \A i \in 1..MaxCalls : WF_toggleVars(i \in DOMAIN calls /\ CallStep(i))

-----------------------------------------------------------------------------
\* A second press gets through before the first is answered when the form does not
\* prevent it, or when it comes from the form of another page.
PressedAgain == ~button.guarded \/ form > 1

\* The success of an accepted request is told of a state that the service had since it
\* was sent, whatever fetch the toast joined.  A request that was refused has a toast
\* too, which may join a fetch that is older than it, since nothing was invalidated.
SuccessTrue ==
  \A i \in DOMAIN calls :
    Call(i).step = "success" /\ Call(i).accepted => Call(i).seen

\* A service has one toast at a time.
OneToast ==
  ~PressedAgain => Cardinality({i \in DOMAIN calls : Loading(i)}) <= 1

\* The service is in the queue as long as its toast polls, and not longer.
QueuedWhileLoading ==
  /\ queued => \E i \in DOMAIN calls : Loading(i)
  /\ ~PressedAgain => \A i \in DOMAIN calls : Loading(i) => queued

\* What a toast says is true, there is one at a time, and the queue knows it.
ToastInv == ToggleTypeOK /\ SuccessTrue /\ OneToast /\ QueuedWhileLoading

\* A toast that loads ends with a success or a warning, unless an error leaves it
\* loading, which happens to those of services only.
ToastEnds ==
  \A i \in 1..MaxCalls :
    (i \in DOMAIN calls /\ Loading(i))
      ~> (i \in DOMAIN calls /\ Call(i).step \in
            IF button = ToggleServiceForm THEN EndSteps ELSE EndSteps \ {"left"})
=============================================================================
