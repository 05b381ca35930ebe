---------------------------- MODULE Flows_proofs ----------------------------
(***************************************************************************)
(* What a user follows on a page: start and stop buttons with their        *)
(* toasts, for any number of presses, pages, tries and changes by others;  *)
(* bars of filters, for every bar and any number of inputs; and forms, for *)
(* every form and any number of drafts.                                    *)
(***************************************************************************)
EXTENDS ToggleToast, FilterBar, FormPanel, FiniteSetTheorems, TLAPS

-----------------------------------------------------------------------------
(* The inductive invariant of a button                                     *)

CallType ==
    [form : 1..MaxForms, desired : Desired, step : ActionSteps \cup LoadingSteps \cup EndSteps,
     accepted : BOOLEAN, tries : 0..MAX_TRIES, seen : BOOLEAN]

ToggleTyped ==
    /\ button \in Buttons
    /\ state \in States /\ work \in Desired \cup {"none"} /\ changes \in 0..MaxChanges
    /\ cache \in States /\ answer \in States \cup {"none"}
    /\ form \in 1..MaxForms /\ queued \in BOOLEAN
    /\ calls \in Seq(CallType)

\* A toast that is going to ask again has a try left.
TriesLeft ==
    \A i \in DOMAIN calls :
        Call(i).step \notin EndSteps \cup {"fetching"} => Call(i).tries < MAX_TRIES

\* Of an accepted request, what the server has and what a fetch will bring to the toast
\* is a state that the service had since the request was sent.
AnswersSeen ==
    \A i \in DOMAIN calls :
        /\ Call(i).step \in {"waiting", "sent", "refused"} => ~Call(i).accepted
        /\ Call(i).step # "waiting" /\ state = Call(i).desired => Call(i).seen
        /\ /\ Call(i).accepted /\ Call(i).step # "accepted"
           /\ answer = Call(i).desired \/ Call(i).step = "success"
           => Call(i).seen

\* The requests under way are those of the pages that were shown, and one page has one.
Underway(i) == InAction(i) \/ Loading(i)
OneUnderway ==
    /\ \A i \in DOMAIN calls : Call(i).form <= form
    /\ ~PressedAgain =>
         \A i, j \in DOMAIN calls : Underway(i) /\ Underway(j) => i = j

ToastIInv == ToggleTyped /\ TriesLeft /\ AnswersSeen /\ OneUnderway /\ QueuedWhileLoading

LEMMA ButtonType == ToggleTyped => button.guarded \in BOOLEAN /\ button.catches \in BOOLEAN
BY ToggleBounds DEF ToggleTyped

LEMMA CallFacts ==
    ASSUME ToggleTyped, NEW i \in DOMAIN calls
    PROVE  /\ calls \in Seq(CallType) /\ calls[i] \in CallType
           /\ calls[i].form \in 1..MaxForms /\ calls[i].desired \in Desired
           /\ calls[i].step \in ActionSteps \cup LoadingSteps \cup EndSteps
           /\ calls[i].accepted \in BOOLEAN /\ calls[i].tries \in 0..MAX_TRIES
           /\ calls[i].seen \in BOOLEAN
<1>1. calls \in Seq(CallType)
  BY DEF ToggleTyped
<1>2. calls[i] \in CallType
  BY <1>1
<1> QED
  BY <1>1, <1>2 DEF CallType

\* The step of one call leaves the others alone, and its own page and wish.
LEMMA ReplacedCall ==
    ASSUME ToggleTyped, NEW i \in DOMAIN calls, NEW c \in CallType,
           c.form = calls[i].form, c.desired = calls[i].desired,
           calls' = [calls EXCEPT ![i] = c]
    PROVE  /\ calls' \in Seq(CallType) /\ DOMAIN calls' = DOMAIN calls
           /\ \A j \in DOMAIN calls : j # i => calls'[j] = calls[j]
           /\ calls'[i].form = calls[i].form /\ calls'[i].desired = calls[i].desired
BY CallFacts

LEMMA CallMoves ==
    ASSUME ToggleTyped, TriesLeft, NEW i \in DOMAIN calls, CallStep(i)
    PROVE  /\ calls' \in Seq(CallType) /\ DOMAIN calls' = DOMAIN calls
           /\ \A j \in DOMAIN calls : j # i => calls'[j] = calls[j]
           /\ calls'[i].form = calls[i].form /\ calls'[i].desired = calls[i].desired
<1>0. calls[i] \in CallType
  BY CallFacts
<1>1. CASE Send(i)
  <2> DEFINE c == [calls[i] EXCEPT !.step = "sent", !.seen = (state = calls[i].desired)]
  <2>1. c \in CallType /\ c.form = calls[i].form /\ c.desired = calls[i].desired
    BY <1>0, ToggleBounds DEF CallType, ActionSteps
  <2>2. calls' = [calls EXCEPT ![i] = c]
    BY <1>1 DEF Send, Call
  <2> HIDE DEF c
  <2> QED
    BY <2>1, <2>2, ReplacedCall
<1>2. CASE Accept(i)
  <2> DEFINE c == [calls[i] EXCEPT !.step = "accepted", !.accepted = TRUE]
  <2>1. c \in CallType /\ c.form = calls[i].form /\ c.desired = calls[i].desired
    BY <1>0, ToggleBounds DEF CallType, ActionSteps
  <2>2. calls' = [calls EXCEPT ![i] = c]
    BY <1>2 DEF Accept, Call
  <2> HIDE DEF c
  <2> QED
    BY <2>1, <2>2, ReplacedCall
<1>3. CASE Refuse(i)
  <2> DEFINE c == [calls[i] EXCEPT !.step = "refused"]
  <2>1. c \in CallType /\ c.form = calls[i].form /\ c.desired = calls[i].desired
    BY <1>0, ToggleBounds DEF CallType, ActionSteps
  <2>2. calls' = [calls EXCEPT ![i] = c]
    BY <1>3 DEF Refuse, Call
  <2> HIDE DEF c
  <2> QED
    BY <2>1, <2>2, ReplacedCall
<1>4. CASE clientAction(i)
  <2>1. PICK step \in ActionSteps : calls' = [calls EXCEPT ![i] = [calls[i] EXCEPT !.step = step]]
    BY <1>4 DEF clientAction, ActionSteps
  <2> DEFINE c == [calls[i] EXCEPT !.step = step]
  <2>2. c \in CallType /\ c.form = calls[i].form /\ c.desired = calls[i].desired
    BY <1>0 DEF CallType
  <2>3. calls' = [calls EXCEPT ![i] = c]
    BY <2>1
  <2> HIDE DEF c
  <2> QED
    BY <2>2, <2>3, ReplacedCall
<1>5. CASE queueToggleItem(i)
  <2>1. PICK step \in LoadingSteps \cup EndSteps :
               calls' = [calls EXCEPT ![i] = [calls[i] EXCEPT !.step = step]]
    BY <1>5 DEF queueToggleItem, LoadingSteps, EndSteps
  <2> DEFINE c == [calls[i] EXCEPT !.step = step]
  <2>2. c \in CallType /\ c.form = calls[i].form /\ c.desired = calls[i].desired
    BY <1>0 DEF CallType
  <2>3. calls' = [calls EXCEPT ![i] = c]
    BY <2>1
  <2> HIDE DEF c
  <2> QED
    BY <2>2, <2>3, ReplacedCall
<1>6. CASE Poll(i)
  <2> DEFINE c == [calls[i] EXCEPT !.step = "fetching", !.tries = calls[i].tries + 1]
  <2>0. calls[i].tries + 1 \in 0..MAX_TRIES
    <3>1. calls[i].tries < MAX_TRIES
      BY <1>6 DEF Poll, TriesLeft, Call, EndSteps
    <3> QED
      BY <3>1, CallFacts, ToggleBounds
  <2>1. c \in CallType /\ c.form = calls[i].form /\ c.desired = calls[i].desired
    BY <1>0, <2>0, ToggleBounds DEF CallType, LoadingSteps
  <2>2. calls' = [calls EXCEPT ![i] = c]
    BY <1>6 DEF Poll, Call
  <2> HIDE DEF c
  <2> QED
    BY <2>1, <2>2, ReplacedCall
<1>7. CASE wait(i)
  <2> DEFINE c == [calls[i] EXCEPT !.step = "polling"]
  <2>1. c \in CallType /\ c.form = calls[i].form /\ c.desired = calls[i].desired
    BY <1>0, ToggleBounds DEF CallType, LoadingSteps
  <2>2. calls' = [calls EXCEPT ![i] = c]
    BY <1>7 DEF wait, Call
  <2> HIDE DEF c
  <2> QED
    BY <2>1, <2>2, ReplacedCall
<1> QED
  BY <1>1, <1>2, <1>3, <1>4, <1>5, <1>6, <1>7 DEF CallStep

\* A change of the state is seen by the calls that were sent.
LEMMA SeenMoves ==
    ASSUME ToggleTyped, NEW s \in States, calls' = Seen(s)
    PROVE  /\ calls' \in Seq(CallType) /\ DOMAIN calls' = DOMAIN calls
           /\ \A i \in DOMAIN calls :
                /\ calls'[i].form = calls[i].form /\ calls'[i].desired = calls[i].desired
                /\ calls'[i].step = calls[i].step /\ calls'[i].accepted = calls[i].accepted
                /\ calls'[i].tries = calls[i].tries
                /\ calls'[i].seen <=> calls[i].seen \/ (calls[i].step # "waiting" /\ s = calls[i].desired)
<1>1. /\ calls \in Seq(CallType)
      /\ calls' = [i \in DOMAIN calls |->
                    [calls[i] EXCEPT !.seen = calls[i].seen \/ (calls[i].step # "waiting" /\ s = calls[i].desired)]]
  BY DEF Seen, Call, ToggleTyped
<1>2. \A i \in DOMAIN calls : calls[i] \in CallType
  BY <1>1
<1>3. \A i \in DOMAIN calls :
        (calls[i].seen \/ (calls[i].step # "waiting" /\ s = calls[i].desired)) \in BOOLEAN
  OBVIOUS
<1>4. ASSUME NEW i \in DOMAIN calls PROVE calls'[i] \in CallType
  <2> DEFINE b == calls[i].seen \/ (calls[i].step # "waiting" /\ s = calls[i].desired)
  <2>1. b \in BOOLEAN /\ calls'[i] = [calls[i] EXCEPT !.seen = b]
    BY <1>1, <1>3
  <2> HIDE DEF b
  <2> QED
    BY <1>2, <2>1 DEF CallType
<1>5. calls' \in Seq(CallType) /\ DOMAIN calls' = DOMAIN calls
  BY <1>1, <1>4
<1> QED
  BY <1>1, <1>2, <1>3, <1>5 DEF CallType

\* An answer is told to those who wait for it.
LEMMA ToldMoves ==
    ASSUME ToggleTyped, NEW s \in States, Fetched(s)
    PROVE  /\ calls' \in Seq(CallType) /\ DOMAIN calls' = DOMAIN calls
           /\ \A i \in DOMAIN calls :
                /\ calls'[i].form = calls[i].form /\ calls'[i].desired = calls[i].desired
                /\ calls'[i].accepted = calls[i].accepted /\ calls'[i].tries = calls[i].tries
                /\ calls'[i].seen = calls[i].seen
                /\ calls'[i].step = IF calls[i].step = "fetching" THEN Judge(calls[i], s)
                                    ELSE IF calls[i].step = "invalidating" THEN "returned"
                                    ELSE calls[i].step
<1>1. /\ calls \in Seq(CallType)
      /\ calls' = [i \in DOMAIN calls |-> Told(calls[i], s)]
  BY DEF Fetched, Call, ToggleTyped
<1>2. ASSUME NEW i \in DOMAIN calls
      PROVE  /\ calls[i] \in CallType
             /\ Judge(calls[i], s) \in {"success", "warning", "left", "pausing"}
  BY CallFacts DEF Judge, Failed
<1>3. \A i \in DOMAIN calls : calls'[i] \in CallType
  BY <1>1, <1>2 DEF Told, CallType, ActionSteps, LoadingSteps, EndSteps
<1>4. calls' \in Seq(CallType) /\ DOMAIN calls' = DOMAIN calls
  BY <1>1, <1>3
<1> QED
  BY <1>1, <1>2, <1>4 DEF Told, CallType

LEMMA PressMoves ==
    ASSUME ToggleTyped, Press
    PROVE  LET n == Len(calls) + 1
           IN  /\ calls' \in Seq(CallType) /\ DOMAIN calls' = DOMAIN calls \cup {n}
               /\ n \notin DOMAIN calls /\ \A i \in DOMAIN calls : calls'[i] = calls[i]
               /\ calls'[n].form = form /\ calls'[n].step = "waiting"
               /\ calls'[n].accepted = FALSE /\ calls'[n].tries = 0
<1> DEFINE call == [form |-> form, desired |-> Opposite(cache), step |-> "waiting",
                    accepted |-> FALSE, tries |-> 0, seen |-> FALSE]
<1>1. call \in CallType
  BY ToggleBounds DEF ToggleTyped, CallType, Opposite, Desired, ActionSteps
<1>2. calls \in Seq(CallType) /\ calls' = Append(calls, call)
  BY DEF ToggleTyped, Press
<1> HIDE DEF call
<1>3. /\ calls' \in Seq(CallType) /\ DOMAIN calls' = DOMAIN calls \cup {Len(calls) + 1}
      /\ Len(calls) + 1 \notin DOMAIN calls /\ \A i \in DOMAIN calls : calls'[i] = calls[i]
      /\ calls'[Len(calls) + 1] = call
  BY <1>1, <1>2
<1> QED
  BY <1>3 DEF call

\* The server's state is one, and an answer brings one.
LEMMA StateMoves ==
    ASSUME ToggleTyped
    PROVE  /\ CarryOut => state' \in States
           /\ Deliver => Fetched(answer) /\ answer \in States
           /\ Fail => Fetched("gone")
BY DEF ToggleTyped, CarryOut, Deliver, Fail, Fetched, States, Desired

LEMMA ToggleTypedKept ==
    ASSUME ToggleTyped, TriesLeft, ToggleNext PROVE ToggleTyped'
<1> USE DEF ToggleTyped, serverVars
<1>1. CASE CarryOut
  BY <1>1, SeenMoves, StateMoves DEF CarryOut
<1>2. CASE Change
  BY <1>2, SeenMoves, ToggleBounds DEF Change
<1>3. CASE Press
  BY <1>3, PressMoves DEF Press
<1>4. CASE Leave
  BY <1>4, ToggleBounds DEF Leave
<1>5. ASSUME NEW i \in DOMAIN calls, CallStep(i) PROVE ToggleTyped'
  <2>1. calls' \in Seq(CallType) /\ calls[i] \in CallType
    BY <1>5, CallMoves
  <2>2. CASE Send(i) \/ Refuse(i) \/ wait(i)
    BY <2>1, <2>2 DEF Send, Refuse, wait
  <2>3. CASE Accept(i)
    BY <2>1, <2>3 DEF Accept, CallType, Call
  <2>4. CASE clientAction(i)
    BY <2>1, <2>4 DEF clientAction
  <2>5. CASE queueToggleItem(i)
    BY <2>1, <2>5 DEF queueToggleItem
  <2>6. CASE Poll(i)
    BY <2>1, <2>6 DEF Poll
  <2> QED
    BY <1>5, <2>2, <2>3, <2>4, <2>5, <2>6 DEF CallStep
<1>6. ASSUME NEW s \in States, Fetched(s), cache' \in States PROVE ToggleTyped'
  BY <1>6, ToldMoves DEF Fetched, dequeueToggleItem
<1>7. CASE Deliver
  BY <1>6, <1>7, StateMoves DEF Deliver
<1>8. CASE Fail
  BY <1>6, <1>8, StateMoves DEF Fail, States
<1>9. CASE Refetch
  BY <1>9 DEF Refetch
<1> QED
  BY <1>1, <1>2, <1>3, <1>4, <1>5, <1>7, <1>8, <1>9 DEF ToggleNext

LEMMA TriesLeftKept ==
    ASSUME ToggleTyped, TriesLeft, ToggleNext PROVE TriesLeft'
<1> USE DEF TriesLeft, Call
<1>1. CASE CarryOut \/ Change
  BY <1>1, SeenMoves, StateMoves DEF CarryOut, Change
<1>2. CASE Press
  BY <1>2, PressMoves, ToggleBounds
<1>3. CASE Leave \/ Refetch
  BY <1>3 DEF Leave, Refetch
<1>4. ASSUME NEW i \in DOMAIN calls, CallStep(i) PROVE TriesLeft'
  <2>1. /\ DOMAIN calls' = DOMAIN calls /\ calls \in Seq(CallType)
        /\ \A j \in DOMAIN calls : j # i => calls'[j] = calls[j]
    BY <1>4, CallMoves DEF ToggleTyped
  <2>2. calls[i] \in CallType
    BY <2>1
  <2>3. calls'[i].step \notin EndSteps \cup {"fetching"} => calls'[i].tries < MAX_TRIES
    <3>3. calls[i].step \notin EndSteps \cup {"fetching"} /\ calls[i].tries < MAX_TRIES
      BY <1>4
      DEF CallStep, Send, Accept, Refuse, clientAction, queueToggleItem, wait, Poll, EndSteps
    <3>1. CASE Poll(i)
      BY <2>1, <2>2, <3>1 DEF Poll, CallType
    <3>2. CASE ~Poll(i)
      <4>1. calls'[i].tries = calls[i].tries
        BY <1>4, <2>1, <2>2, <3>2
        DEF CallStep, Send, Accept, Refuse, clientAction, queueToggleItem, wait, CallType
      <4> QED
        BY <3>3, <4>1
    <3> QED
      BY <3>1, <3>2
  <2> QED
    BY <2>1, <2>3
<1>5. ASSUME NEW s \in States, Fetched(s) PROVE TriesLeft'
  BY <1>5, ToldMoves DEF Judge, Failed, EndSteps
<1> QED
  BY <1>1, <1>2, <1>3, <1>4, <1>5, StateMoves DEF ToggleNext, States

LEMMA AnswersSeenKept ==
    ASSUME ToggleTyped, TriesLeft, AnswersSeen, ToggleNext PROVE AnswersSeen'
<1> USE DEF AnswersSeen, Call, serverVars
<1>1. CASE CarryOut \/ Change
  BY <1>1, SeenMoves, StateMoves DEF CarryOut, Change
<1>2. CASE Press
  BY <1>2, PressMoves DEF Press
<1>3. CASE Leave \/ Refetch
  BY <1>3 DEF Leave, Refetch
<1>4. ASSUME NEW i \in DOMAIN calls, CallStep(i) PROVE AnswersSeen'
  <2>1. /\ DOMAIN calls' = DOMAIN calls /\ calls \in Seq(CallType) /\ state' = state
        /\ \A j \in DOMAIN calls : j # i => calls'[j] = calls[j]
        /\ calls'[i].desired = calls[i].desired
    BY <1>4, CallMoves
    DEF ToggleTyped, CallStep, Send, Accept, Refuse, clientAction, queueToggleItem, Poll, wait
  <2>2. calls[i] \in CallType
    BY <2>1
  <2>3. answer' = answer \/ answer' = state
    BY <1>4 DEF CallStep, Send, Accept, Refuse, clientAction, queueToggleItem, Poll, wait
  <2>4. \A j \in DOMAIN calls :
          calls[j].accepted => calls[j].step # "waiting"
    OBVIOUS
  <2>5. /\ calls'[i].step \in {"waiting", "sent", "refused"} => ~calls'[i].accepted
        /\ calls'[i].step # "waiting" /\ state = calls[i].desired => calls'[i].seen
        /\ /\ calls'[i].accepted /\ calls'[i].step # "accepted"
           /\ answer' = calls[i].desired \/ calls'[i].step = "success"
           => calls'[i].seen
    <3>1. CASE Send(i)
      BY <2>1, <2>2, <3>1 DEF Send, CallType
    <3>2. CASE Accept(i)
      BY <2>1, <2>2, <3>2 DEF Accept, CallType
    <3>3. CASE Refuse(i)
      BY <2>1, <2>2, <3>3 DEF Refuse, CallType
    <3>4. CASE clientAction(i)
      BY <2>1, <2>2, <3>4 DEF clientAction, CallType
    <3>5. CASE queueToggleItem(i)
      BY <2>1, <2>2, <3>5 DEF queueToggleItem, CallType
    <3>6. CASE Poll(i)
      BY <2>1, <2>2, <3>6 DEF Poll, CallType
    <3>7. CASE wait(i)
      BY <2>1, <2>2, <3>7 DEF wait, CallType
    <3> QED
      BY <1>4, <3>1, <3>2, <3>3, <3>4, <3>5, <3>6, <3>7 DEF CallStep
  <2> QED
    BY <2>1, <2>3, <2>4, <2>5
<1>5. ASSUME NEW s \in States, Fetched(s), s = answer \/ s = "gone" PROVE AnswersSeen'
  <2>1. answer' = "none" /\ state' = state /\ calls \in Seq(CallType)
    BY <1>5 DEF Fetched, ToggleTyped
  <2>2. \A i \in DOMAIN calls : calls[i].desired \in Desired
    BY CallFacts
  <2>3. \A i \in DOMAIN calls :
          Judge(calls[i], s) \in {"success", "warning", "left", "pausing"}
          /\ (Judge(calls[i], s) = "success" => s = calls[i].desired)
    BY DEF Judge, Failed
  <2> QED
    BY <1>5, <2>1, <2>2, <2>3, ToldMoves DEF Desired
<1>6. CASE Deliver
  BY <1>5, <1>6, StateMoves
<1>7. CASE Fail
  BY <1>5, <1>7, StateMoves DEF States
<1> QED
  BY <1>1, <1>2, <1>3, <1>4, <1>6, <1>7 DEF ToggleNext

LEMMA ToastFacts ==
    ASSUME ToastIInv, ToggleNext
    PROVE  /\ ToggleTyped /\ TriesLeft /\ OneUnderway /\ QueuedWhileLoading
           /\ calls \in Seq(CallType) /\ form \in Nat /\ button' = button
<1>1. ToggleTyped /\ TriesLeft /\ OneUnderway /\ QueuedWhileLoading
  BY DEF ToastIInv
<1>2. calls \in Seq(CallType) /\ form \in Nat
  BY <1>1, ToggleBounds DEF ToggleTyped
<1>3. button' = button
  BY DEF ToggleNext, CarryOut, Change, Press, Leave, Deliver, Fail, Fetched, Refetch, CallStep,
         Send, Accept, Refuse, clientAction, queueToggleItem, Poll, wait
<1> QED
  BY <1>1, <1>2, <1>3

LEMMA OneUnderwayKept ==
    ASSUME ToastIInv, ToggleNext PROVE OneUnderway'
<1> USE DEF OneUnderway, Underway, InAction, Loading, Call, PressedAgain
<1>0. ToggleTyped /\ TriesLeft /\ OneUnderway /\ calls \in Seq(CallType) /\ form \in Nat /\ button' = button
  BY ToastFacts
<1>1. CASE CarryOut \/ Change
  BY <1>0, <1>1, SeenMoves, StateMoves DEF CarryOut, Change
<1>2. CASE Press
  <2>1. ~PressedAgain => \A i \in DOMAIN calls : ~Underway(i)
    <3> SUFFICES ASSUME ~PressedAgain, NEW i \in DOMAIN calls PROVE ~Underway(i)
      OBVIOUS
    <3>1. calls[i].form = form
      <4>1. calls[i].form \in 1..MaxForms /\ calls[i].form <= form /\ form = 1
        BY <1>0, CallFacts, ToggleBounds DEF ToggleTyped
      <4> QED
        BY <4>1, ToggleBounds
    <3> QED
      BY <1>2, <3>1 DEF Press, ToastIInv, QueuedWhileLoading
  <2> QED
    BY <1>0, <1>2, <2>1, PressMoves DEF Press
<1>3. CASE Leave
  <2>1. calls' = calls /\ form' = form + 1
    BY <1>3 DEF Leave
  <2>2. \A i \in DOMAIN calls : calls[i].form \in Nat
    BY <1>0, CallFacts, ToggleBounds
  <2>3. PressedAgain'
    BY <1>0, <2>1, ToggleBounds DEF ToggleTyped
  <2> QED
    BY <1>0, <2>1, <2>2, <2>3
<1>4. ASSUME NEW i \in DOMAIN calls, CallStep(i) PROVE OneUnderway'
  <2>1. /\ DOMAIN calls' = DOMAIN calls /\ form' = form
        /\ \A j \in DOMAIN calls : j # i => calls'[j] = calls[j]
        /\ calls'[i].form = calls[i].form
    BY <1>0, <1>4, CallMoves
    DEF CallStep, Send, Accept, Refuse, clientAction, queueToggleItem, Poll, wait
  <2>2. Underway(i)
    BY <1>4 DEF CallStep, Send, Accept, Refuse, clientAction, queueToggleItem, Poll, wait,
                ActionSteps, LoadingSteps
  <2> QED
    BY <1>0, <2>1, <2>2
<1>5. ASSUME NEW s \in States, Fetched(s) PROVE OneUnderway'
  <2>1. form' = form
    BY <1>5 DEF Fetched
  <2> QED
    BY <1>0, <1>5, <2>1, ToldMoves DEF ActionSteps, LoadingSteps
<1>6. CASE Refetch
  BY <1>0, <1>6 DEF Refetch
<1> QED
  BY <1>0, <1>1, <1>2, <1>3, <1>4, <1>5, <1>6, StateMoves DEF ToggleNext, States

LEMMA QueuedKept ==
    ASSUME ToastIInv, ToggleNext PROVE QueuedWhileLoading'
<1> USE DEF QueuedWhileLoading, Loading, Call, PressedAgain
<1>0. ToggleTyped /\ TriesLeft /\ OneUnderway /\ calls \in Seq(CallType) /\ form \in Nat /\ button' = button
      /\ QueuedWhileLoading
  BY ToastFacts
<1>1. CASE CarryOut \/ Change
  BY <1>0, <1>1, SeenMoves, StateMoves DEF CarryOut, Change
<1>2. CASE Press
  BY <1>0, <1>2, PressMoves DEF Press, LoadingSteps
<1>3. CASE Leave
  BY <1>0, <1>3 DEF Leave
<1>4. ASSUME NEW i \in DOMAIN calls, CallStep(i) PROVE QueuedWhileLoading'
  <2>1. /\ DOMAIN calls' = DOMAIN calls /\ form' = form
        /\ \A j \in DOMAIN calls : j # i => calls'[j] = calls[j]
    BY <1>0, <1>4, CallMoves
    DEF CallStep, Send, Accept, Refuse, clientAction, queueToggleItem, Poll, wait
  <2>2. calls[i] \in CallType
    BY <1>0
  <2>3. CASE queueToggleItem(i)
    <3>1. calls[i].step = "returned" /\ (queued' <=> calls'[i].step = "polling")
          /\ calls'[i].step \in {"warning", "polling"} /\ queued' \in BOOLEAN
      BY <2>2, <2>3 DEF queueToggleItem, CallType
    <3>2. ~PressedAgain => \A j \in DOMAIN calls : Loading(j) => j = i
      BY <1>0, <3>1 DEF OneUnderway, Underway, InAction, ActionSteps
    <3> QED
      BY <1>0, <2>1, <3>1, <3>2 DEF LoadingSteps
  <2>4. CASE ~queueToggleItem(i)
    <3>1. queued' = queued /\ (Loading(i)' <=> Loading(i))
      BY <1>4, <2>2, <2>4
      DEF CallStep, Send, Accept, Refuse, clientAction, Poll, wait, LoadingSteps, CallType
    <3> QED
      BY <1>0, <2>1, <3>1
  <2> QED
    BY <2>3, <2>4
<1>5. ASSUME NEW s \in States, Fetched(s) PROVE QueuedWhileLoading'
  <2>1. /\ form' = form
        /\ queued' = (queued /\ ~\E i \in DOMAIN calls : Loading(i) /\ calls'[i].step \in EndSteps)
    BY <1>0, <1>5, ToldMoves DEF Fetched, dequeueToggleItem
  <2>2. \A i \in DOMAIN calls : Loading(i)' => Loading(i)
    BY <1>0, <1>5, ToldMoves DEF LoadingSteps
  <2>3. \A i \in DOMAIN calls : Loading(i) => Loading(i)' \/ calls'[i].step \in EndSteps
    <3>1. \A i \in DOMAIN calls : Judge(calls[i], s) \in EndSteps \cup {"pausing"}
      BY DEF Judge, Failed, EndSteps
    <3> QED
      BY <1>0, <1>5, <3>1, ToldMoves DEF LoadingSteps
  <2>4. ~PressedAgain => \A i, j \in DOMAIN calls : Loading(i) /\ Loading(j) => i = j
    BY <1>0 DEF OneUnderway, Underway
  <2>5. \A i \in DOMAIN calls : Loading(i)' => calls'[i].step \notin EndSteps
    BY DEF LoadingSteps, EndSteps
  <2>6. DOMAIN calls' = DOMAIN calls
    BY <1>0, <1>5, ToldMoves
  <2>7. queued' => \E i \in DOMAIN calls' : Loading(i)'
    BY <1>0, <2>1, <2>3, <2>6
  <2>8. ~PressedAgain => \A i \in DOMAIN calls : Loading(i)' => queued'
    BY <1>0, <2>1, <2>2, <2>4, <2>5
  <2> QED
    BY <1>0, <2>1, <2>6, <2>7, <2>8
<1>6. CASE Refetch
  BY <1>0, <1>6 DEF Refetch
<1> QED
  BY <1>0, <1>1, <1>2, <1>3, <1>4, <1>5, <1>6, StateMoves DEF ToggleNext, States

LEMMA ToastInit == ToggleInit => ToastIInv
<1> SUFFICES ASSUME ToggleInit PROVE ToastIInv
  OBVIOUS
<1>1. calls = <<>> /\ DOMAIN calls = {}
  BY DEF ToggleInit
<1>2. ToggleTyped
  <2>1. calls \in Seq(CallType)
    BY <1>1
  <2>2. form \in 1..MaxForms /\ changes \in 0..MaxChanges
    BY ToggleBounds DEF ToggleInit
  <2> QED
    BY <2>1, <2>2 DEF ToggleInit, ToggleTyped, States
<1>3. TriesLeft /\ AnswersSeen /\ OneUnderway /\ QueuedWhileLoading
  BY <1>1 DEF ToggleInit, TriesLeft, AnswersSeen, OneUnderway, QueuedWhileLoading
<1> QED
  BY <1>2, <1>3 DEF ToastIInv

LEMMA ToastStep == ToastIInv /\ [ToggleNext]_toggleVars => ToastIInv'
<1> SUFFICES ASSUME ToastIInv, [ToggleNext]_toggleVars PROVE ToastIInv'
  OBVIOUS
<1>1. CASE ToggleNext
  BY <1>1, ToggleTypedKept, TriesLeftKept, AnswersSeenKept, OneUnderwayKept, QueuedKept DEF ToastIInv
<1>2. CASE UNCHANGED toggleVars
  BY <1>2 DEF toggleVars, serverVars, ToastIInv, ToggleTyped, TriesLeft, AnswersSeen, OneUnderway,
              Underway, InAction, PressedAgain, QueuedWhileLoading, Loading, Call
<1> QED
  BY <1>1, <1>2

\* At most one of the calls loads, as a number.
LEMMA OneToastHolds == ASSUME ToastIInv PROVE OneToast
<1> DEFINE L == {i \in DOMAIN calls : Loading(i)}
<1> SUFFICES ASSUME ~PressedAgain PROVE Cardinality(L) <= 1
  BY DEF OneToast
<1>1. \A i, j \in L : i = j
  BY DEF ToastIInv, OneUnderway, Underway
<1>2. CASE L = {}
  BY <1>2, FS_EmptySet
<1>3. CASE L # {}
  <2>1. PICK i \in L : TRUE
    BY <1>3
  <2>2. L = {i}
    BY <1>1, <2>1
  <2>3. Cardinality(L) = 1
    BY <2>2, FS_Singleton
  <2> QED
    BY <2>3
<1> QED
  BY <1>2, <1>3

\* However often a button is pressed, on however many pages, and whatever others do to the
\* service meanwhile: the success of an accepted request is told of a state that the
\* service had since it was sent, a service has one toast at a time, and the queue of
\* toggled items knows it as long as it loads and not longer.
THEOREM ToastCorrect == ToggleSpec => []ToastInv
<1>1. ToastIInv => ToastInv
  <2> SUFFICES ASSUME ToastIInv PROVE ToastInv
    OBVIOUS
  <2>1. ToggleTypeOK
    <3>1. ToggleTyped
      BY DEF ToastIInv
    <3>2. \A i \in DOMAIN calls :
            /\ Call(i).form \in 1..MaxForms /\ Call(i).desired \in Desired
            /\ Call(i).step \in ActionSteps \cup LoadingSteps \cup EndSteps
            /\ Call(i).accepted \in BOOLEAN /\ Call(i).tries \in 0..MAX_TRIES
            /\ Call(i).seen \in BOOLEAN
      BY <3>1, CallFacts DEF Call
    <3> QED
      BY <3>1, <3>2 DEF ToggleTyped, ToggleTypeOK
  <2>2. SuccessTrue
    BY DEF ToastIInv, AnswersSeen, SuccessTrue, Call
  <2> QED
    BY <2>1, <2>2, OneToastHolds DEF ToastIInv, ToastInv
<1> QED
  BY <1>1, ToastInit, ToastStep, PTL DEF ToggleSpec

-----------------------------------------------------------------------------
(* The inductive invariant of a filter bar                                 *)

Components == {"header", "filter"}

FilterTyped ==
    /\ bar \in Bars
    /\ url \in Params /\ nav \in Params \cup {NoNav}
    /\ params \in [Components -> Params]
    /\ text \in Texts /\ due \in Texts \cup {NoText}
    /\ chips \subseteq {"query", "filter"} /\ wish \subseteq Options
    /\ raced \subseteq {"reverted", "undone", "overtaken", "stale", "kept"}
    /\ inputs \in 0..MaxInputs

\* Where the URL is going, and what the list will be searched for.
Going  == IF nav = NoNav THEN url ELSE nav
Target == IF due # NoText THEN due ELSE QueryOf(Going)

\* A component has its own copy of the URL, or the parameters that it navigates to.
CopiesKept ==
    "overtaken" \notin raced =>
        /\ \A c \in Components : params[c] \in {Going, url}
        /\ params["header"] = url \/ params["filter"] = url

\* The navigation under way has the options that the user chose.
ChoiceKept == raced \cap {"overtaken", "stale"} = {} => Going.filter = wish

\* What it filters by is shown, and so is the input of a text that is to be applied.
ShownKept ==
    bar.chips /\ raced \cap {"overtaken", "undone"} = {} =>
        /\ Filters(Going) \subseteq chips
        /\ due # NoText => "query" \in chips

\* The input says what the list will be searched for, or still says what the URL does:
\* it follows the URL, or goes away when the navigation under way is done.
GoingAway ==
    bar.chips /\ nav # NoNav /\ nav # url /\ "query" \notin Filters(nav) /\ due = NoText
TextKept ==
    InputShown /\ raced \cap {"reverted", "undone", "overtaken"} = {} =>
        \/ text = Target
        \/ text = QueryOf(url) /\ (bar.synced \/ GoingAway)

\* The page that it goes to exists; without pages it is the first one, and a text is
\* only applied later where it is not applied at once.
PageKept ==
    /\ ~bar.pages => url.page = 1 /\ Going.page = 1 /\ \A c \in Components : params[c].page = 1
    /\ raced = {} => Going.page <= PageCount(Going)
    /\ bar.search \in {"no", "now"} => due = NoText

BarIInv == FilterTyped /\ CopiesKept /\ ChoiceKept /\ ShownKept /\ TextKept /\ PageKept

LEMMA BarFacts ==
    ASSUME FilterTyped
    PROVE  /\ bar \in BarType /\ (bar.pages /\ bar.search # "no" => bar.restarts)
           /\ url \in Params /\ Going \in Params /\ Blank \in Params
           /\ params["header"] \in Params /\ params["filter"] \in Params
           /\ QueryOf(url) \in Texts /\ QueryOf(Going) \in Texts /\ NoNav \notin Params
<1>1. bar \in Bars /\ url \in Params /\ nav \in Params \cup {NoNav} /\ params \in [Components -> Params]
  BY DEF FilterTyped
<1>2. Going \in Params
  BY <1>1 DEF Going
<1>3. \A p \in Params : QueryOf(p) \in Texts
  BY DEF Params, QueryOf, Texts
<1>4. Blank \in Params
  BY DEF Params, Blank, Texts
<1>5. NoNav \notin Params
  BY DEF Params, NoNav, Blank
<1> QED
  BY <1>1, <1>2, <1>3, <1>4, <1>5, BarBounds DEF Components

LEMMA InputCounted ==
    ASSUME FilterTyped, Input PROVE inputs' \in 0..MaxInputs
BY BarBounds DEF FilterTyped, Input

\* A component that does not overtake another navigates from where the URL is going, and
\* is then the only one whose copy is not that of the URL.
LEMMA GoesOnFrom ==
    ASSUME FilterTyped, CopiesKept, "overtaken" \notin raced, NEW c \in Components,
           "overtaken" \notin Overtaking(c)
    PROVE  /\ params[c] = Going
           /\ \A d \in Components \ {c} : params[d] = url
BY DEF FilterTyped, CopiesKept, Going, Overtaking, Components

\* What a navigation of the component c changes.
LEMMA Navigated ==
    ASSUME FilterTyped, CopiesKept, NEW c \in Components, NEW p \in Params,
           setSearchParams(c, p), url' = url, Overtaking(c) \subseteq raced', raced \subseteq raced'
    PROVE  /\ CopiesKept' /\ nav' = p /\ Going' = p
           /\ params' \in [Components -> Params] /\ params'[c] = p
           /\ \A d \in Components \ {c} : params'[d] = params[d]
           /\ "overtaken" \notin raced' => params[c] = Going
<1>1. /\ Going' = p /\ nav' = p /\ params' \in [Components -> Params] /\ params'[c] = p
      /\ \A d \in Components \ {c} : params'[d] = params[d]
  BY BarFacts DEF setSearchParams, Going, FilterTyped
<1>2. ASSUME "overtaken" \notin raced'
      PROVE  params[c] = Going /\ \A d \in Components \ {c} : params[d] = url
  BY <1>2, GoesOnFrom
<1>3. CopiesKept'
  BY <1>1, <1>2 DEF CopiesKept, Components
<1> QED
  BY <1>1, <1>2, <1>3

\* A search for the text t, from the header.
LEMMA SearchedFor ==
    ASSUME FilterTyped, NEW t \in Texts
    PROVE  LET p == Searched(params["header"], t)
           IN  /\ p \in Params /\ p.query = t /\ p.filter = params["header"].filter
               /\ p.page = IF bar.restarts THEN 1 ELSE params["header"].page
<1>1. /\ params["header"] \in Params
      /\ (IF bar.restarts THEN 1 ELSE params["header"].page) \in 1..2
  BY BarFacts DEF Params
<1>2. Searched(params["header"], t) =
        [params["header"] EXCEPT !.query = t,
                                 !.page = IF bar.restarts THEN 1 ELSE params["header"].page]
  BY DEF Searched
<1> QED
  BY <1>1, <1>2 DEF Params

\* A search does not make a list longer than another one.
LEMMA SearchedPage ==
    ASSUME BarIInv, bar.search # "no", NEW p \in Params, raced = {},
           p.page = IF bar.restarts THEN 1 ELSE Going.page
    PROVE  p.page <= PageCount(p)
<1>1. p.page = 1
  BY BarFacts DEF BarIInv, PageKept, BarType
<1>2. PageCount(p) \in {1, 2}
  BY DEF PageCount
<1> QED
  BY <1>1, <1>2

LEMMA SearchKeeps == ASSUME BarIInv, searchForQuery PROVE BarIInv'
<1> DEFINE p == Searched(params["header"], due)
<1>1. /\ FilterTyped /\ CopiesKept /\ ChoiceKept /\ ShownKept /\ TextKept /\ PageKept
      /\ due \in Texts /\ due # NoText /\ bar.search # "no"
  BY DEF BarIInv, FilterTyped, searchForQuery, PageKept
<1>2. /\ p \in Params /\ p.query = due /\ p.filter = params["header"].filter
      /\ p.page = IF bar.restarts THEN 1 ELSE params["header"].page
  BY <1>1, SearchedFor
<1>3. /\ setSearchParams("header", p) /\ due' = NoText /\ raced' = raced \cup Overtaking("header")
      /\ UNCHANGED <<bar, url, text, chips, wish, inputs>>
  BY DEF searchForQuery
<1> HIDE DEF p
<1>4. /\ CopiesKept' /\ nav' = p /\ Going' = p /\ params' \in [Components -> Params]
      /\ params'["header"] = p /\ params'["filter"] = params["filter"]
      /\ "overtaken" \notin raced' => params["header"] = Going
  BY <1>1, <1>2, <1>3, Navigated DEF Components
<1>5. FilterTyped'
  BY <1>1, <1>2, <1>3, <1>4 DEF FilterTyped, Overtaking
<1>6. ChoiceKept'
  BY <1>1, <1>2, <1>3, <1>4 DEF ChoiceKept
<1>7. ShownKept'
  BY <1>1, <1>2, <1>3, <1>4 DEF ShownKept, Filters
<1>8. TextKept'
  <2>1. Target' = Target
    BY <1>1, <1>2, <1>3, <1>4 DEF Target, QueryOf
  <2> QED
    BY <1>1, <1>3, <2>1 DEF TextKept, InputShown, GoingAway
<1>9. PageKept'
  <2>1. raced' = {} => p.page <= PageCount(p)
    BY <1>1, <1>2, <1>3, <1>4, SearchedPage
  <2> QED
    BY <1>1, <1>2, <1>3, <1>4, <2>1 DEF PageKept, Components
<1> QED
  BY <1>4, <1>5, <1>6, <1>7, <1>8, <1>9 DEF BarIInv

LEMMA ChangeKeeps == ASSUME BarIInv, NEW t \in Texts, onChange(t) PROVE BarIInv'
<1>1. /\ FilterTyped /\ CopiesKept /\ ChoiceKept /\ ShownKept /\ TextKept /\ PageKept
      /\ InputShown /\ bar.search # "no" /\ t # NoText /\ inputs' \in 0..MaxInputs
      /\ text' = t /\ UNCHANGED <<bar, url, chips, wish>>
  <2>1. FilterTyped /\ InputShown /\ t # NoText
    BY DEF BarIInv, onChange, Texts, NoText
  <2>2. inputs' \in 0..MaxInputs
    BY <2>1, BarBounds DEF FilterTyped, onChange, Input
  <2> QED
    BY <2>1, <2>2 DEF BarIInv, onChange, InputShown
<1>2. CASE bar.search = "now"
  <2> DEFINE p == Searched(params["header"], t)
  <2>1. /\ setSearchParams("header", p) /\ raced' = raced \cup Overtaking("header") /\ due' = due
    BY <1>2 DEF onChange
  <2>2. /\ p \in Params /\ p.query = t /\ p.filter = params["header"].filter
        /\ p.page = IF bar.restarts THEN 1 ELSE params["header"].page
    BY <1>1, SearchedFor
  <2> HIDE DEF p
  <2>3. /\ CopiesKept' /\ nav' = p /\ Going' = p /\ params' \in [Components -> Params]
        /\ params'["header"] = p /\ params'["filter"] = params["filter"]
        /\ "overtaken" \notin raced' => params["header"] = Going
    BY <1>1, <2>1, <2>2, Navigated DEF Components
  <2>4. FilterTyped'
    BY <1>1, <2>1, <2>2, <2>3 DEF FilterTyped, Overtaking
  <2>5. ChoiceKept'
    BY <1>1, <2>1, <2>2, <2>3 DEF ChoiceKept
  <2>6. ShownKept'
    BY <1>1, <2>1, <2>2, <2>3 DEF ShownKept, Filters, InputShown
  <2>7. TextKept'
    BY <1>1, <1>2, <2>1, <2>2, <2>3 DEF TextKept, InputShown, Target, QueryOf, PageKept
  <2>8. PageKept'
    <3>1. raced' = {} => p.page <= PageCount(p)
      BY <1>1, <2>1, <2>2, <2>3, SearchedPage
    <3> QED
      BY <1>1, <2>1, <2>2, <2>3, <3>1 DEF PageKept, Components
  <2> QED
    BY <2>3, <2>4, <2>5, <2>6, <2>7, <2>8 DEF BarIInv
<1>3. CASE bar.search # "now"
  <2>1. /\ UNCHANGED <<params, nav>>
        /\ \/ due' = t /\ raced' = raced
           \/ /\ due' = due
              /\ raced' = raced \cup
                   (IF due # NoText \/ t # QueryOf(IF nav = NoNav THEN url ELSE nav)
                    THEN {"reverted"} ELSE {})
    BY <1>3 DEF onChange
  <2>2. Going' = Going
    BY <1>1, <2>1 DEF Going
  <2>3. FilterTyped' /\ CopiesKept' /\ ChoiceKept'
    BY <1>1, <2>1, <2>2 DEF FilterTyped, CopiesKept, ChoiceKept
  <2>4. ShownKept'
    BY <1>1, <2>1, <2>2 DEF ShownKept, InputShown
  <2>5. TextKept'
    BY <1>1, <2>1, <2>2 DEF TextKept, Target, Going
  <2>6. PageKept'
    BY <1>1, <1>3, <2>1, <2>2 DEF PageKept
  <2> QED
    BY <2>3, <2>4, <2>5, <2>6 DEF BarIInv
<1> QED
  BY <1>2, <1>3

\* The options are those of a page that the user sees, changed as he wants.
LEMMA ValueKeeps ==
    ASSUME BarIInv, NEW changed \in [SUBSET Options -> SUBSET Options], onValueChange(changed)
    PROVE  BarIInv'
<1>1. /\ FilterTyped /\ CopiesKept /\ ChoiceKept /\ ShownKept /\ TextKept /\ PageKept
      /\ bar.chips => "filter" \in chips
      /\ inputs' \in 0..MaxInputs /\ wish' = changed[wish] /\ wish' \in SUBSET Options
      /\ UNCHANGED <<bar, url, text, due, chips>>
  BY BarBounds DEF BarIInv, FilterTyped, onValueChange, Input
<1>2. PICK c \in Components, seen \in Rendered :
        /\ setSearchParams(c, [params[c] EXCEPT !.filter = changed[seen.filter]])
        /\ raced' = raced \cup Overtaking(c)
             \cup (IF seen.filter # wish THEN {"stale"} ELSE {})
             \cup (IF params[c].page > 1 THEN {"kept"} ELSE {})
  BY DEF onValueChange, Components
<1> DEFINE p == [params[c] EXCEPT !.filter = changed[seen.filter]]
<1>3. /\ p \in Params /\ p.query = params[c].query /\ p.filter = changed[seen.filter]
      /\ p.page = params[c].page /\ params[c].page \in 1..2
  <2>1. params[c] \in Params /\ seen \in Params
    BY <1>1, BarFacts DEF Components, Rendered
  <2>2. changed[seen.filter] \in SUBSET Options
    BY <2>1 DEF Params
  <2> QED
    BY <2>1, <2>2 DEF Params
<1>4. setSearchParams(c, p)
  BY <1>2
<1> HIDE DEF p
<1>5. /\ CopiesKept' /\ nav' = p /\ Going' = p /\ params' \in [Components -> Params]
      /\ params'[c] = p /\ \A d \in Components \ {c} : params'[d] = params[d]
      /\ "overtaken" \notin raced' => params[c] = Going
  BY <1>1, <1>2, <1>3, <1>4, Navigated
<1>6. FilterTyped'
  BY <1>1, <1>2, <1>3, <1>5 DEF FilterTyped, Overtaking
<1>7. ChoiceKept'
  <2>1. raced' \cap {"overtaken", "stale"} = {} => seen.filter = wish
    BY <1>2
  <2> QED
    BY <1>1, <1>3, <1>5, <2>1 DEF ChoiceKept
<1>8. ShownKept'
  BY <1>1, <1>2, <1>3, <1>5 DEF ShownKept, Filters
<1>9. TextKept'
  <2>1. SUFFICES ASSUME InputShown, raced' \cap {"reverted", "undone", "overtaken"} = {}
                 PROVE  \/ text = Target'
                        \/ text = QueryOf(url) /\ (bar.synced \/ GoingAway')
    BY <1>1 DEF TextKept, InputShown
  <2>2. p.query = Going.query /\ Target' = Target /\ raced \cap {"reverted", "undone", "overtaken"} = {}
    BY <1>1, <1>2, <1>3, <1>5, <2>1 DEF Target, QueryOf
  <2>3. CASE GoingAway
    <3>1. "query" \notin Filters(p) /\ p # NoNav
      BY <1>3, <2>2, <2>3, BarFacts, <1>1 DEF GoingAway, Going, Filters
    <3>2. p = url => Target' = QueryOf(url)
      BY <1>1, <1>5, <2>3 DEF Target, GoingAway
    <3> QED
      BY <1>1, <1>5, <2>1, <2>2, <2>3, <3>1, <3>2 DEF TextKept, GoingAway
  <2> QED
    BY <1>1, <2>1, <2>2, <2>3 DEF TextKept
<1>10. PageKept'
  <2>1. raced' = {} => p.page <= PageCount(p)
    <3> SUFFICES ASSUME raced' = {} PROVE p.page <= PageCount(p)
      OBVIOUS
    <3>1. p.page = 1
      BY <1>2, <1>3
    <3>2. PageCount(p) \in {1, 2}
      BY DEF PageCount
    <3> QED
      BY <3>1, <3>2
  <2> QED
    BY <1>1, <1>3, <1>5, <2>1 DEF PageKept, Components
<1> QED
  BY <1>5, <1>6, <1>7, <1>8, <1>9, <1>10 DEF BarIInv

\* Another page, or another number of entries on a page: what is filtered stays.
LEMMA PagesKeep ==
    ASSUME BarIInv, NEW p \in Params, setSearchParams("header", p), bar.pages, Input,
           p.query = params["header"].query, p.filter = params["header"].filter,
           UNCHANGED <<bar, url, text, due, chips, wish>>,
           Overtaking("header") \subseteq raced', raced \subseteq raced',
           raced' \subseteq raced \cup {"overtaken"},
           raced' = {} => p.page <= PageCount(p)
    PROVE  BarIInv'
<1>1. /\ FilterTyped /\ CopiesKept /\ ChoiceKept /\ ShownKept /\ TextKept /\ PageKept
      /\ inputs' \in 0..MaxInputs
  BY BarBounds DEF BarIInv, FilterTyped, Input
<1>2. /\ CopiesKept' /\ nav' = p /\ Going' = p /\ params' \in [Components -> Params]
      /\ "overtaken" \notin raced' => params["header"] = Going
  BY <1>1, Navigated DEF Components
<1>3. FilterTyped'
  BY <1>1, <1>2 DEF FilterTyped
<1>4. ChoiceKept' /\ ShownKept'
  BY <1>1, <1>2 DEF ChoiceKept, ShownKept, Filters
<1>5. TextKept'
  <2>1. SUFFICES ASSUME InputShown, raced' \cap {"reverted", "undone", "overtaken"} = {}
                 PROVE  \/ text = Target'
                        \/ text = QueryOf(url) /\ (bar.synced \/ GoingAway')
    BY DEF TextKept, InputShown
  <2>2. p.query = Going.query /\ Target' = Target /\ raced \cap {"reverted", "undone", "overtaken"} = {}
    BY <1>2, <2>1 DEF Target, QueryOf
  <2>3. CASE GoingAway
    <3>1. "query" \notin Filters(p) /\ p # NoNav
      BY <2>2, <2>3, BarFacts, <1>1 DEF GoingAway, Going, Filters
    <3>2. p = url => Target' = QueryOf(url)
      BY <1>2, <2>3 DEF Target, GoingAway
    <3> QED
      BY <1>1, <1>2, <2>1, <2>2, <2>3, <3>1, <3>2 DEF TextKept, GoingAway
  <2> QED
    BY <1>1, <2>1, <2>2, <2>3 DEF TextKept
<1>6. PageKept'
  BY <1>1, <1>2 DEF PageKept
<1> QED
  BY <1>2, <1>3, <1>4, <1>5, <1>6 DEF BarIInv

LEMMA PageKeeps == ASSUME BarIInv, NEW n \in 1..2, onChangePage(n) PROVE BarIInv'
<1> DEFINE p == [params["header"] EXCEPT !.page = n]
<1>1. /\ FilterTyped /\ CopiesKept /\ bar.pages /\ Input /\ setSearchParams("header", p)
      /\ raced' = raced \cup (IF nav # NoNav THEN {"overtaken"} ELSE {})
      /\ UNCHANGED <<bar, url, text, due, chips, wish>> /\ n <= PageCount(url)
  BY DEF BarIInv, onChangePage
<1>2. /\ p \in Params /\ p.query = params["header"].query /\ p.filter = params["header"].filter
      /\ p.page = n /\ p.perPage = params["header"].perPage
  BY <1>1, BarFacts DEF Params
<1> HIDE DEF p
<1>3. ASSUME raced' = {} PROVE p.page <= PageCount(p)
  <2>1. params["header"] = url
    BY <1>1, <1>3 DEF CopiesKept, Going, Components
  <2>2. PageCount(p) = PageCount(url)
    BY <1>2, <2>1 DEF PageCount, QueryOf
  <2> QED
    BY <1>1, <1>2, <2>2
<1> QED
  BY <1>1, <1>2, <1>3, PagesKeep DEF Overtaking

LEMMA PerPageKeeps == ASSUME BarIInv, NEW n \in 1..2, onChangePerPage(n) PROVE BarIInv'
<1> DEFINE p == [params["header"] EXCEPT !.page = 1, !.perPage = n]
<1>1. /\ FilterTyped /\ bar.pages /\ Input /\ setSearchParams("header", p)
      /\ raced' = raced \cup Overtaking("header")
      /\ UNCHANGED <<bar, url, text, due, chips, wish>>
  BY DEF BarIInv, onChangePerPage
<1>2. /\ p \in Params /\ p.query = params["header"].query /\ p.filter = params["header"].filter
      /\ p.page = 1
  <2> DEFINE q == [params["header"] EXCEPT !.page = 1]
  <2>1. params["header"] \in Params
    BY <1>1, BarFacts
  <2>2. /\ q \in Params /\ q.query = params["header"].query /\ q.filter = params["header"].filter
        /\ q.page = 1
    BY <2>1 DEF Params
  <2>3. p = [q EXCEPT !.perPage = n]
    BY <2>1 DEF Params
  <2> HIDE DEF q, p
  <2> QED
    BY <2>2, <2>3 DEF Params
<1> HIDE DEF p
<1>3. p.page <= PageCount(p)
  <2>1. PageCount(p) \in {1, 2}
    BY DEF PageCount
  <2> QED
    BY <1>2, <2>1
<1> QED
  BY <1>1, <1>2, <1>3, PagesKeep DEF Overtaking

LEMMA AddKeeps ==
    ASSUME BarIInv, NEW f \in {"query", "filter"}, AddFilter(f) PROVE BarIInv'
<1>1. /\ FilterTyped /\ CopiesKept /\ ChoiceKept /\ ShownKept /\ TextKept /\ PageKept
      /\ bar.chips /\ f \notin chips /\ chips' = chips \cup {f} /\ inputs' \in 0..MaxInputs
      /\ UNCHANGED <<bar, url, nav, params, due, wish, raced>>
  BY BarBounds DEF BarIInv, FilterTyped, AddFilter, Input
<1>2. PICK seen \in Rendered : text' = IF f = "query" THEN QueryOf(seen) ELSE text
  BY DEF AddFilter
<1>3. seen \in Params /\ QueryOf(seen) \in Texts
  <2>1. seen \in Params
    BY <1>1, BarFacts DEF Rendered
  <2> QED
    BY <2>1 DEF QueryOf, Params, Texts
<1>4. FilterTyped' /\ CopiesKept' /\ ChoiceKept' /\ ShownKept' /\ PageKept' /\ Going' = Going
  BY <1>1, <1>2, <1>3
  DEF FilterTyped, CopiesKept, ChoiceKept, ShownKept, PageKept, Going
<1>5. TextKept'
  <2>1. SUFFICES ASSUME InputShown', raced \cap {"reverted", "undone", "overtaken"} = {}
                 PROVE  \/ text' = Target
                        \/ text' = QueryOf(url) /\ (bar.synced \/ GoingAway)
    BY <1>1, <1>4 DEF TextKept, Target, GoingAway
  <2>2. CASE f = "query"
    <3>1. due = NoText /\ "query" \notin Filters(Going) /\ text' = QueryOf(seen)
      BY <1>1, <1>2, <2>1, <2>2 DEF ShownKept
    <3>2. seen \in {Going, url}
      BY <1>1, <2>1 DEF Rendered, CopiesKept, Components
    <3>3. Going # url => GoingAway
      BY <1>1, <3>1 DEF GoingAway, Going
    <3> QED
      BY <3>1, <3>2, <3>3 DEF Target
  <2>3. CASE f # "query"
    BY <1>1, <1>2, <2>1, <2>3 DEF TextKept, InputShown
  <2> QED
    BY <2>2, <2>3
<1> QED
  BY <1>4, <1>5 DEF BarIInv

LEMMA RemoveKeeps ==
    ASSUME BarIInv, NEW f \in {"query", "filter"}, RemoveFilter(f) PROVE BarIInv'
<1> DEFINE p == [params["header"] EXCEPT ![f] = Blank[f]]
<1>1. /\ FilterTyped /\ CopiesKept /\ ChoiceKept /\ ShownKept /\ TextKept /\ PageKept
      /\ bar.chips /\ f \in chips /\ chips' = chips \ {f} /\ inputs' \in 0..MaxInputs
      /\ setSearchParams("header", p)
      /\ raced' = raced \cup Overtaking("header") \cup (IF f = "query" THEN Undone ELSE {})
      /\ IF f = "query" THEN text' = "" /\ wish' = wish ELSE wish' = {} /\ text' = text
      /\ UNCHANGED <<bar, url, due>>
  <2>1. inputs' \in 0..MaxInputs
    BY InputCounted DEF BarIInv, RemoveFilter
  <2> QED
    BY <2>1 DEF BarIInv, RemoveFilter
<1>2. /\ p \in Params /\ p.page = params["header"].page /\ p.perPage = params["header"].perPage
      /\ p.query = IF f = "query" THEN NoText ELSE params["header"].query
      /\ p.filter = IF f = "query" THEN params["header"].filter ELSE {}
  <2>1. params["header"] \in Params
    BY <1>1, BarFacts
  <2>2. CASE f = "query"
    <3>1. p = [params["header"] EXCEPT !.query = NoText]
      BY <2>2 DEF Blank
    <3> QED
      BY <2>1, <2>2, <3>1 DEF Params
  <2>3. CASE f = "filter"
    <3>1. p = [params["header"] EXCEPT !.filter = {}]
      BY <2>3 DEF Blank
    <3> QED
      BY <2>1, <2>3, <3>1 DEF Params
  <2> QED
    BY <2>2, <2>3
<1> HIDE DEF p
<1>3. /\ CopiesKept' /\ nav' = p /\ Going' = p /\ params' \in [Components -> Params]
      /\ params'["header"] = p /\ params'["filter"] = params["filter"]
      /\ "overtaken" \notin raced' => params["header"] = Going
  BY <1>1, <1>2, Navigated DEF Components
<1>4. FilterTyped'
  BY <1>1, <1>2, <1>3 DEF FilterTyped, Overtaking, Undone, Texts
<1>5. ChoiceKept'
  BY <1>1, <1>2, <1>3 DEF ChoiceKept
<1>6. ShownKept'
  BY <1>1, <1>2, <1>3 DEF ShownKept, Filters, Undone
<1>7. TextKept'
  <2>1. SUFFICES ASSUME InputShown', raced' \cap {"reverted", "undone", "overtaken"} = {}
                 PROVE  \/ text' = Target'
                        \/ text' = QueryOf(url) /\ (bar.synced \/ GoingAway')
    BY <1>1 DEF TextKept
  <2>2. f = "filter"
    BY <1>1, <2>1 DEF InputShown
  <2>3. /\ p.query = Going.query /\ Target' = Target /\ text' = text /\ InputShown
        /\ raced \cap {"reverted", "undone", "overtaken"} = {}
    BY <1>1, <1>2, <1>3, <2>1, <2>2 DEF Target, QueryOf, InputShown
  <2>4. CASE GoingAway
    <3>1. "query" \notin Filters(p) /\ p # NoNav
      BY <1>1, <1>2, <2>3, <2>4, BarFacts DEF GoingAway, Going, Filters
    <3>2. p = url => Target' = QueryOf(url)
      BY <1>1, <1>3, <2>4 DEF Target, GoingAway
    <3> QED
      BY <1>1, <1>3, <2>1, <2>3, <2>4, <3>1, <3>2 DEF TextKept, GoingAway
  <2> QED
    BY <1>1, <2>1, <2>3, <2>4 DEF TextKept
<1>8. PageKept'
  <2>1. raced' = {} => p.page <= PageCount(p)
    <3> SUFFICES ASSUME raced' = {} PROVE p.page <= PageCount(p)
      OBVIOUS
    <3>1. raced = {} /\ params["header"] = Going
      BY <1>1, <1>3
    <3>2. p.page = Going.page /\ p.page \in 1..2 /\ PageCount(p) \in {1, 2} /\ PageCount(Going) \in {1, 2}
      BY <1>2, <3>1 DEF PageCount, Params
    <3>3. PageCount(p) = 1 => PageCount(Going) = 1
      BY <1>2, <3>1 DEF PageCount, QueryOf
    <3>4. Going.page <= PageCount(Going)
      BY <1>1, <3>1 DEF PageKept
    <3> QED
      BY <3>2, <3>3, <3>4
  <2> QED
    BY <1>1, <1>2, <1>3, <2>1 DEF PageKept, Components
<1> QED
  BY <1>3, <1>4, <1>5, <1>6, <1>7, <1>8 DEF BarIInv

LEMMA ClearKeeps == ASSUME BarIInv, clearFilters PROVE BarIInv'
<1>1. /\ FilterTyped /\ CopiesKept /\ ChoiceKept /\ ShownKept /\ TextKept /\ PageKept
      /\ nav' = Blank /\ chips' = {} /\ wish' = {} /\ inputs' \in 0..MaxInputs
      /\ text' = IF bar.synced THEN text ELSE ""
      /\ raced' = raced \cup Undone \cup (IF nav # NoNav THEN {"overtaken"} ELSE {})
      /\ UNCHANGED <<bar, url, params, due>>
  BY InputCounted DEF BarIInv, clearFilters
<1>2. /\ Going' = Blank /\ Blank \in Params /\ Blank.query = NoText /\ Blank.filter = {}
      /\ Blank.page = 1 /\ QueryOf(Blank) = "" /\ Filters(Blank) = {}
  BY <1>1, BarFacts DEF Going, Blank, QueryOf, Filters
<1>3. FilterTyped'
  BY <1>1, <1>2 DEF FilterTyped, Undone, Texts
<1>4. CopiesKept'
  BY <1>1 DEF CopiesKept, Going
<1>5. ChoiceKept' /\ ShownKept'
  BY <1>1, <1>2 DEF ChoiceKept, ShownKept, Undone
<1>6. TextKept'
  <2>1. SUFFICES ASSUME InputShown', raced' \cap {"reverted", "undone", "overtaken"} = {}
                 PROVE  text' = Target' \/ (text' = QueryOf(url) /\ bar.synced)
    BY <1>1 DEF TextKept
  <2>2. due = NoText /\ nav = NoNav /\ raced \cap {"reverted", "undone", "overtaken"} = {}
    BY <1>1, <2>1 DEF Undone
  <2>3. Target' = ""
    BY <1>1, <1>2, <2>2 DEF Target
  <2>4. CASE bar.synced
    <3>1. InputShown
      BY <1>1, <2>1 DEF InputShown
    <3>2. text = QueryOf(url)
      BY <1>1, <2>2, <3>1 DEF TextKept, Target, Going
    <3> QED
      BY <1>1, <2>4, <3>2
  <2>5. CASE ~bar.synced
    BY <1>1, <2>3, <2>5
  <2> QED
    BY <2>4, <2>5
<1>7. PageKept'
  <2>1. PageCount(Blank) \in {1, 2}
    BY DEF PageCount
  <2>2. Blank.page <= PageCount(Blank)
    <3>1. Blank.page = 1 /\ (PageCount(Blank) = 1 \/ PageCount(Blank) = 2)
      BY <1>2, <2>1
    <3> QED
      BY <3>1
  <2>3. bar'.search = bar.search /\ (bar'.pages <=> bar.pages)
    BY <1>1
  <2> QED
    BY <1>1, <1>2, <2>2, <2>3 DEF PageKept
<1> QED
  BY <1>3, <1>4, <1>5, <1>6, <1>7 DEF BarIInv

\* The loaders have run: every copy is that of the new URL.
LEMMA CommitKeeps == ASSUME BarIInv, Commit PROVE BarIInv'
<1>1. /\ FilterTyped /\ CopiesKept /\ ChoiceKept /\ ShownKept /\ TextKept /\ PageKept
      /\ nav # NoNav /\ nav \in Params /\ url' = nav /\ nav' = NoNav
      /\ UNCHANGED <<bar, due, wish, inputs>>
  BY DEF BarIInv, FilterTyped, Commit
<1>2. Going' = Going /\ Going = nav /\ Target' = Target
  BY <1>1 DEF Going, Target
<1>3. CASE nav = url
  <2>1. UNCHANGED <<params, text, chips, raced>>
    BY <1>3 DEF Commit
  <2>2. FilterTyped' /\ ChoiceKept' /\ ShownKept'
    BY <1>1, <1>2, <2>1 DEF FilterTyped, ChoiceKept, ShownKept
  <2>3. CopiesKept'
    BY <1>1, <1>2, <1>3, <2>1 DEF CopiesKept
  <2>4. TextKept'
    BY <1>1, <1>2, <1>3, <2>1 DEF TextKept, InputShown, GoingAway
  <2>5. PageKept'
    BY <1>1, <1>2, <1>3, <2>1 DEF PageKept
  <2> QED
    BY <2>2, <2>3, <2>4, <2>5 DEF BarIInv
<1>4. CASE nav # url
  <2>1. /\ params' = [c \in DOMAIN params |-> nav]
        /\ chips' = IF bar.chips THEN Filters(nav) ELSE chips
        /\ text' = IF bar.chips /\ "query" \notin Filters(nav) THEN ""
                   ELSE IF \/ bar.chips /\ "query" \notin chips
                           \/ bar.synced /\ QueryOf(nav) # QueryOf(url)
                        THEN QueryOf(nav) ELSE text
        /\ raced' = raced \cup
             (IF bar.chips /\ "query" \in chips \ Filters(nav) THEN Undone ELSE {})
    BY <1>4 DEF Commit
  <2>2. params' \in [Components -> Params] /\ \A c \in Components : params'[c] = nav
    BY <1>1, <2>1 DEF FilterTyped
  <2>3. FilterTyped'
    <3>1. text' \in Texts
      BY <1>1, <1>2, <2>1, BarFacts DEF FilterTyped, Texts
    <3>2. chips' \subseteq {"query", "filter"}
      BY <1>1, <2>1 DEF FilterTyped, Filters
    <3> QED
      BY <1>1, <2>1, <2>2, <3>1, <3>2 DEF FilterTyped, Undone
  <2>4. CopiesKept' /\ ChoiceKept'
    BY <1>1, <1>2, <2>1, <2>2 DEF CopiesKept, ChoiceKept, Components
  <2>5. ShownKept'
    BY <1>1, <1>2, <2>1 DEF ShownKept, Undone
  <2>6. TextKept'
    <3>1. SUFFICES ASSUME InputShown', raced' \cap {"reverted", "undone", "overtaken"} = {}
                   PROVE  text' = Target \/ (text' = QueryOf(nav) /\ bar.synced)
      BY <1>1, <1>2 DEF TextKept
    <3>2. raced \cap {"reverted", "undone", "overtaken"} = {} /\ bar.search # "no"
      BY <1>1, <2>1, <3>1 DEF InputShown
    <3>3. CASE bar.chips /\ "query" \notin chips
      <4>1. "query" \in Filters(nav) /\ due = NoText
        BY <1>1, <1>2, <2>1, <3>1, <3>2, <3>3 DEF InputShown, ShownKept
      <4> QED
        BY <1>2, <2>1, <3>3, <4>1 DEF Target
    <3>4. CASE bar.chips => "query" \in chips
      <4>1. InputShown /\ ~GoingAway
        BY <1>1, <2>1, <3>1, <3>2, <3>4 DEF InputShown, GoingAway
      <4>2. text = Target \/ (text = QueryOf(url) /\ bar.synced)
        BY <1>1, <3>2, <4>1 DEF TextKept
      <4>3. bar.chips => "query" \in Filters(nav)
        BY <1>1, <2>1, <3>1 DEF InputShown
      <4>4. text' = IF bar.synced /\ QueryOf(nav) # QueryOf(url) THEN QueryOf(nav) ELSE text
        BY <2>1, <3>4, <4>3
      <4> QED
        BY <4>2, <4>4
    <3> QED
      BY <3>3, <3>4
  <2>7. PageKept'
    <3>1. raced' = {} => raced = {}
      BY <2>1
    <3> QED
      BY <1>1, <1>2, <2>2, <3>1 DEF PageKept
  <2> QED
    BY <2>3, <2>4, <2>5, <2>6, <2>7 DEF BarIInv
<1> QED
  BY <1>3, <1>4

LEMMA BarInit == FilterInit => BarIInv
<1> SUFFICES ASSUME FilterInit PROVE BarIInv
  OBVIOUS
<1>1. /\ Blank \in Params /\ Blank.query = NoText /\ Blank.filter = {} /\ Blank.page = 1
      /\ QueryOf(Blank) = "" /\ Filters(Blank) = {} /\ PageCount(Blank) \in {1, 2}
  BY DEF Params, Blank, QueryOf, Filters, PageCount, Texts
<1>2. /\ bar \in Bars /\ url = Blank /\ nav = NoNav /\ Going = Blank
      /\ params \in [Components -> Params] /\ \A c \in Components : params[c] = Blank
      /\ text = "" /\ due = NoText /\ chips = {} /\ wish = {} /\ raced = {} /\ inputs = 0
  BY <1>1 DEF FilterInit, Going, Components
<1>3. FilterTyped
  <2>1. MaxInputs \in Nat /\ inputs = 0
    BY <1>2, BarBounds
  <2>2. inputs \in 0..MaxInputs
    BY <2>1
  <2> QED
    BY <1>1, <1>2, <2>2 DEF FilterTyped, Texts
<1>4. CopiesKept /\ ChoiceKept /\ ShownKept
  BY <1>1, <1>2 DEF CopiesKept, ChoiceKept, ShownKept, Components
<1>5. TextKept
  BY <1>1, <1>2 DEF TextKept, Target
<1>6. PageKept
  <2>1. Blank.page <= PageCount(Blank)
    <3>1. Blank.page = 1 /\ (PageCount(Blank) = 1 \/ PageCount(Blank) = 2)
      BY <1>1
    <3> QED
      BY <3>1
  <2> QED
    BY <1>1, <1>2, <2>1 DEF PageKept
<1> QED
  BY <1>3, <1>4, <1>5, <1>6 DEF BarIInv

LEMMA BarStep == BarIInv /\ [FilterNext]_barVars => BarIInv'
<1> SUFFICES ASSUME BarIInv, [FilterNext]_barVars PROVE BarIInv'
  OBVIOUS
<1>1. CASE ToggleOption
  <2>1. PICK o \in Options : onValueChange(toggleOption(o))
    BY <1>1 DEF ToggleOption
  <2>2. toggleOption(o) \in [SUBSET Options -> SUBSET Options]
    BY DEF toggleOption
  <2> QED
    BY <2>1, <2>2, ValueKeeps
<1>2. CASE ToggleAll
  <2>1. toggleAll \in [SUBSET Options -> SUBSET Options]
    BY DEF toggleAll
  <2> QED
    BY <1>2, <2>1, ValueKeeps DEF ToggleAll
<1>3. CASE UNCHANGED barVars
  BY <1>3
  DEF barVars, BarIInv, FilterTyped, CopiesKept, ChoiceKept, ShownKept, TextKept, PageKept, Going,
      Target, GoingAway, InputShown
<1>4. CASE FilterNext /\ ~ToggleOption /\ ~ToggleAll
  BY <1>4, CommitKeeps, SearchKeeps, ClearKeeps, ChangeKeeps, PageKeeps, PerPageKeeps, AddKeeps,
     RemoveKeeps
  DEF FilterNext
<1> QED
  BY <1>1, <1>2, <1>3, <1>4

\* However the user types, chooses, adds, removes and turns pages while calls wait and
\* navigations run: once nothing is under way the text and the options of the URL, which
\* the list is queried from, are those that he sees and chose, each filter of the URL is
\* one he can remove, and its page exists, but for the overlaps that "raced" names.
THEOREM FilterCorrect == FilterSpec => []FilterInv
<1>1. BarIInv => FilterInv
  <2> SUFFICES ASSUME BarIInv PROVE FilterInv
    OBVIOUS
  <2>1. FilterTyped /\ CopiesKept /\ ChoiceKept /\ ShownKept /\ TextKept /\ PageKept
    BY DEF BarIInv
  <2>2. FilterTypeOK
    BY <2>1 DEF FilterTyped, FilterTypeOK, Components
  <2>3. Settled => Going = url /\ Target = QueryOf(url) /\ ~GoingAway
    BY DEF Settled, Going, Target, GoingAway
  <2>4. QueryFollowsText
    BY <2>1, <2>3 DEF QueryFollowsText, TextKept
  <2>5. OptionsFollowChoice /\ FilterShown /\ PageExists
    BY <2>1, <2>3 DEF OptionsFollowChoice, FilterShown, PageExists, ChoiceKept, ShownKept, PageKept
  <2> QED
    BY <2>2, <2>4, <2>5 DEF FilterInv
<1> QED
  BY <1>1, BarInit, BarStep, PTL DEF FilterSpec

-----------------------------------------------------------------------------
(* The table of the forms                                                  *)

\* The fields that ShowsSaved excepts.
Exempt == KeepCopy \cup KeepLateText

\* What the handlers of a form f do to its component, to a field of kind k and to the
\* copied errors: Vanishes, Unmounts and Restores of FormPanel, of any form.
VanishesIn(f, effects) == "close" \in effects /\ f.panel = "row"
UnmountsIn(f, effects) ==
    "close" \in effects /\ f.panel \in {"swapped", "accordion", "dialog", "row"}
RestoresIn(f, k, effects) ==
    \/ VanishesIn(f, effects)
    \/ k = "free" /\ (UnmountsIn(f, effects) \/ "reset" \in effects)
    \/ k = "copy" /\ "sync" \in effects
    \/ k = "kept" /\ "syncKept" \in effects
ClearsIn(f, effects) ==
    \/ VanishesIn(f, effects) \/ f.errors = "none"
    \/ "clear" \in effects /\ f.errors \in {"effect", "callback"}

\* A form that is always there, and does nothing but save.
Plain(f) ==
    /\ f.panel = "inline" /\ f.locks = "no" /\ f.discards = "no" /\ f.followsData = "no"
    /\ ~f.creates /\ f.onSuccess = {} /\ f.onCancel = {}

\* What the handlers of the form n do about a field of kind k: each way of leaving the
\* form brings the field back to the data, but for the exceptions that the properties name.
FieldOK(n, f, k) ==
    /\ f.onCancel # {} =>
         RestoresIn(f, k, f.onCancel) \/ k = "none" \/ (<<n, k>> \in Exempt /\ k # "free")
    /\ f.onDiscard # {} =>
         RestoresIn(f, k, f.onDiscard) \/ (<<n, k>> \in Exempt /\ k # "free")
    /\ f.discards = "beside" => k = "free" \/ <<n, k>> \in Exempt
    /\ f.panel = "row" => k = "free"
    /\ k = "none" => f.discards = "no"
    /\ f.creates => k # "none" /\ (n \in LoseDraft => k = "free")
    /\ f.followsData # "no" => RestoresIn(f, k, f.onSuccess)
    /\ \/ RestoresIn(f, k, f.onSuccess) \/ "leave" \in f.onSuccess \/ k = "none"
       \/ k # "free" /\ <<n, k>> \in Exempt
       \/ k = "free" /\ n \in KeepText \ LoseDraft /\ (Plain(f) \/ <<n, k>> \in Exempt)

\* What they do about the panel and the errors: the errors are cleared where the form is
\* left, an effect that runs again is that of a form which loses drafts, and a form that
\* creates has no pending change.
FormOK(n, f) ==
    /\ f.panel \in {"inline", "editing", "swapped", "accordion", "dialog", "row"}
    /\ f.guarded /\ f.creates \in BOOLEAN
    /\ f.fields \subseteq {"free", "copy", "kept", "none"}
    /\ f.followsData # "no" =>
         n \in LoseDraft /\ f.panel # "row" /\ (f.errors = "effect" => n \in KeepErrors)
    /\ f.onDiscard # {} => "close" \in f.onDiscard /\ f.panel # "inline"
    /\ "leave" \notin f.onDiscard \cup f.onCancel \cup f.onClose
    /\ "leave" \in f.onSuccess =>
         f.discards = "no" /\ f.panel # "row" /\ f.followsData = "no"
    /\ n \in KeepErrors \/ f.onCancel = {} \/ ClearsIn(f, f.onCancel)
    /\ \/ n \in KeepErrors \/ f.panel \notin {"accordion", "dialog"}
       \/ ClearsIn(f, f.onClose \cup {"close"})
    /\ f.panel = "row" => "close" \in f.onCancel /\ "close" \in f.onSuccess
    /\ f.creates => f.discards = "no" /\ f.locks = "no" /\ n \notin KeepText /\ f.panel # "row"
    /\ f.panel = "row" => n \notin LoseDraft
    /\ f.panel = "row" \/ f.discards = "beside" => n \notin KeepText

Works(n, f) == FormOK(n, f) /\ \A k \in f.fields : FieldOK(n, f, k)

\* Every form of the application does so: read off the table, one form at a time.
LEMMA EveryForm == \A n \in DOMAIN Component : Works(n, Component[n])
<1> USE DEF VanishesIn, UnmountsIn, RestoresIn, ClearsIn, Plain, Exempt, KeepCopy, KeepLateText,
            KeepText, LoseDraft, KeepErrors, Form, Works, FormOK, FieldOK
<1>1. Works("ServiceSlugForm", ServiceSlugForm)
  BY DEF ServiceSlugForm
<1>2. Works("ServiceAutoDeployForm", ServiceAutoDeployForm)
  BY DEF ServiceAutoDeployForm
<1>3. Works("ServiceDeployURLForm", ServiceDeployURLForm)
  BY DEF ServiceDeployURLForm
<1>4. Works("ServicePreviewDeployURLForm", ServicePreviewDeployURLForm)
  BY DEF ServicePreviewDeployURLForm
<1>5. Works("NewServiceVariable", NewServiceVariable)
  BY DEF NewServiceVariable
<1>6. Works("AddEnvironmentVariable", AddEnvironmentVariable)
  BY DEF AddEnvironmentVariable
<1>7. Works("NewStackVariable", NewStackVariable)
  BY DEF NewStackVariable
<1>8. Works("DotEnvFileFormDialog", DotEnvFileFormDialog)
  BY DEF DotEnvFileFormDialog
<1>9. Works("ComposeStackSlugForm", ComposeStackSlugForm)
  BY DEF ComposeStackSlugForm
<1>10. Works("ProjectDetailsForm", ProjectDetailsForm)
  BY DEF ProjectDetailsForm
<1>11. Works("EnvironmentNameForm", EnvironmentNameForm)
  BY DEF EnvironmentNameForm
<1>12. Works("GithubAppCard", GithubAppCard)
  BY DEF GithubAppCard
<1>13. Works("UpdateProfileForm", UpdateProfileForm)
  BY DEF UpdateProfileForm
<1>14. Works("ServiceSourceForm", ServiceSourceForm)
  BY DEF ServiceSourceForm, LockedByChange
<1>15. Works("ComposeStackUserContentForm", ComposeStackUserContentForm)
  BY DEF ComposeStackUserContentForm, LockedByChange
<1>16. Works("ServiceGitSourceForm", ServiceGitSourceForm)
  BY DEF ServiceGitSourceForm, LockedByChange, useFetcherWithCallbacks
<1>17. Works("ServiceBuilderForm", ServiceBuilderForm)
  BY DEF ServiceBuilderForm, LockedByChange, useFetcherWithCallbacks
<1>18. Works("ServiceCommandForm", ServiceCommandForm)
  BY DEF ServiceCommandForm, LockedByChange, useFetcherWithCallbacks
<1>19. Works("ServiceHealthcheckForm", ServiceHealthcheckForm)
  BY DEF ServiceHealthcheckForm, LockedByChange, useFetcherWithCallbacks
<1>20. Works("ServiceResourceLimits", ServiceResourceLimits)
  BY DEF ServiceResourceLimits, LockedByChange, useFetcherWithCallbacks
<1>21. Works("ServicePortItem", ServicePortItem)
  BY DEF ServicePortItem, ChangeItem, useFetcherWithCallbacks
<1>22. Works("ServiceVolumeItem", ServiceVolumeItem)
  BY DEF ServiceVolumeItem, ChangeItem, useFetcherWithCallbacks
<1>23. Works("ServiceSharedVolumeItem", ServiceSharedVolumeItem)
  BY DEF ServiceSharedVolumeItem, ChangeItem, useFetcherWithCallbacks
<1>24. Works("ServiceURLFormItem", ServiceURLFormItem)
  BY DEF ServiceURLFormItem, ChangeItem, useFetcherWithCallbacks
<1>25. Works("ServiceConfigItem", ServiceConfigItem)
  BY DEF ServiceConfigItem, ChangeItem, useFetcherWithCallbacks
<1>26. Works("NewServicePortForm", NewServicePortForm)
  BY DEF NewServicePortForm, NewChangeForm, useFetcherWithCallbacks
<1>27. Works("NewServiceVolumeForm", NewServiceVolumeForm)
  BY DEF NewServiceVolumeForm, NewChangeForm, useFetcherWithCallbacks
<1>28. Works("NewServiceSharedVolumeForm", NewServiceSharedVolumeForm)
  BY DEF NewServiceSharedVolumeForm, NewChangeForm, useFetcherWithCallbacks
<1>29. Works("NewServiceURLForm", NewServiceURLForm)
  BY DEF NewServiceURLForm, NewChangeForm, useFetcherWithCallbacks
<1>30. Works("NewServiceConfigForm", NewServiceConfigForm)
  BY DEF NewServiceConfigForm, NewChangeForm, useFetcherWithCallbacks
<1>31. Works("ArchiveServiceDialog", ArchiveServiceDialog)
  BY DEF ArchiveServiceDialog, ConfirmDialog
<1>32. Works("ArchiveStackDialog", ArchiveStackDialog)
  BY DEF ArchiveStackDialog, ConfirmDialog
<1>33. Works("ArchiveProjectDialog", ArchiveProjectDialog)
  BY DEF ArchiveProjectDialog, ConfirmDialog
<1>34. Works("EnvironmentDeleteFormDialog", EnvironmentDeleteFormDialog)
  BY DEF EnvironmentDeleteFormDialog, ConfirmDialog
<1>35. Works("DeleteTemplateDialog", DeleteTemplateDialog)
  BY DEF DeleteTemplateDialog, ConfirmDialog
<1>36. Works("CreateEnvironmentFormDialog", CreateEnvironmentFormDialog)
  BY DEF CreateEnvironmentFormDialog, ConfirmDialog
<1>37. Works("ServiceCleanupQueueConfirmModal", ServiceCleanupQueueConfirmModal)
  BY DEF ServiceCleanupQueueConfirmModal, ConfirmDialog
<1>38. Works("DeleteSSHKeyDialog", DeleteSSHKeyDialog)
  BY DEF DeleteSSHKeyDialog, ConfirmDialog
<1>39. Works("DeleteGitAppDialog", DeleteGitAppDialog)
  BY DEF DeleteGitAppDialog, ConfirmDialog
<1>40. Works("DeleteCredentialsDialog", DeleteCredentialsDialog)
  BY DEF DeleteCredentialsDialog, ConfirmDialog
<1>41. Works("DeleteRegistryDialog", DeleteRegistryDialog)
  BY DEF DeleteRegistryDialog, ConfirmDialog
<1>42. Works("StopServiceConfirmationDialog", StopServiceConfirmationDialog)
  BY DEF StopServiceConfirmationDialog, ConfirmDialog
<1>43. Works("StopStackConfirmationDialog", StopStackConfirmationDialog)
  BY DEF StopStackConfirmationDialog, ConfirmDialog
<1>44. Works("DeleteVariableConfirmationDialog", DeleteVariableConfirmationDialog)
  BY DEF DeleteVariableConfirmationDialog, ConfirmDialog
<1>45. Works("ServiceChangesModal", ServiceChangesModal)
  BY DEF ServiceChangesModal, DeployDialog
<1>46. Works("ComposeStackChangesModal", ComposeStackChangesModal)
  BY DEF ComposeStackChangesModal, DeployDialog
<1>47. Works("DiscardServiceChanges", DiscardServiceChanges)
  BY DEF DiscardServiceChanges, CommandButton
<1>48. Works("DiscardServiceChange", DiscardServiceChange)
  BY DEF DiscardServiceChange, CommandButton
<1>49. Works("DiscardStackChanges", DiscardStackChanges)
  BY DEF DiscardStackChanges, CommandButton
<1>50. Works("DiscardStackChange", DiscardStackChange)
  BY DEF DiscardStackChange, CommandButton
<1>51. Works("ServiceActionsPopover", ServiceActionsPopover)
  BY DEF ServiceActionsPopover, CommandButton
<1>52. Works("ComposeStackActionsPopover", ComposeStackActionsPopover)
  BY DEF ComposeStackActionsPopover, CommandButton
<1>53. Works("CredentialActions", CredentialActions)
  BY DEF CredentialActions, CommandButton
<1>54. Works("GitlabAppCard", GitlabAppCard)
  BY DEF GitlabAppCard, CommandButton
<1>55. Works("DeploymentCancelForm", DeploymentCancelForm)
  BY DEF DeploymentCancelForm, CommandButton
<1>56. Works("StackDeploymentCancelForm", StackDeploymentCancelForm)
  BY DEF StackDeploymentCancelForm, CommandButton
<1>57. Works("ComposeStackDeployURLForm", ComposeStackDeployURLForm)
  BY DEF ComposeStackDeployURLForm, CommandButton
<1>58. Works("EditServiceVariable", EditServiceVariable)
  BY DEF EditServiceVariable, VariableRow
<1>59. Works("EditStackVariable", EditStackVariable)
  BY DEF EditStackVariable, VariableRow
<1>60. Works("EditEnvironmentVariable", EditEnvironmentVariable)
  BY DEF EditEnvironmentVariable, VariableRow
<1>61. Works("CreateProjectForm", CreateProjectForm)
  BY DEF CreateProjectForm, PageForm
<1>62. Works("CreatePreviewTemplateForm", CreatePreviewTemplateForm)
  BY DEF CreatePreviewTemplateForm, PageForm
<1>63. Works("EditPreviewTemplateForm", EditPreviewTemplateForm)
  BY DEF EditPreviewTemplateForm, PageForm
<1>64. Works("ReviewDeploymentForm", ReviewDeploymentForm)
  BY DEF ReviewDeploymentForm, PageForm
<1>65. Works("CreateSSHKeyForm", CreateSSHKeyForm)
  BY DEF CreateSSHKeyForm, PageForm
<1>66. Works("CreateGitlabAppForm", CreateGitlabAppForm)
  BY DEF CreateGitlabAppForm, PageForm
<1>67. Works("EditGitlabAppForm", EditGitlabAppForm)
  BY DEF EditGitlabAppForm, PageForm
<1>68. Works("CreateRegistryCredentialsForm", CreateRegistryCredentialsForm)
  BY DEF CreateRegistryCredentialsForm, PageForm
<1>69. Works("EditRegistryCredentialsForm", EditRegistryCredentialsForm)
  BY DEF EditRegistryCredentialsForm, PageForm
<1>70. Works("CreateBuildRegistryForm", CreateBuildRegistryForm)
  BY DEF CreateBuildRegistryForm, PageForm
<1>71. Works("EditBuildRegistryForm", EditBuildRegistryForm)
  BY DEF EditBuildRegistryForm, PageForm
<1>72. Works("ChangePasswordForm", ChangePasswordForm)
  BY DEF ChangePasswordForm, PageForm
<1>73. Works("LoginPage", LoginPage)
  BY DEF LoginPage, PageForm
<1>74. Works("InitialRegistration", InitialRegistration)
  BY DEF InitialRegistration, PageForm
<1>75. Works("DockerServiceStep", DockerServiceStep)
  BY DEF DockerServiceStep, FirstStep, Step, PageForm
<1>76. Works("PublicGitServiceStep", PublicGitServiceStep)
  BY DEF PublicGitServiceStep, FirstStep, Step, PageForm
<1>77. Works("GitAppServiceStep", GitAppServiceStep)
  BY DEF GitAppServiceStep, FirstStep, Step, PageForm
<1>78. Works("StackContentsStep", StackContentsStep)
  BY DEF StackContentsStep, FirstStep, Step, PageForm
<1>79. Works("StackDokployStep", StackDokployStep)
  BY DEF StackDokployStep, FirstStep, Step, PageForm
<1>80. Works("StackTemplateStep", StackTemplateStep)
  BY DEF StackTemplateStep, FirstStep, Step, PageForm
<1>81. Works("DockerServiceCreated", DockerServiceCreated)
  BY DEF DockerServiceCreated, Step, PageForm
<1>82. Works("PublicGitServiceCreated", PublicGitServiceCreated)
  BY DEF PublicGitServiceCreated, Step, PageForm
<1>83. Works("GitAppServiceCreated", GitAppServiceCreated)
  BY DEF GitAppServiceCreated, Step, PageForm
<1>84. Works("StackContentsCreated", StackContentsCreated)
  BY DEF StackContentsCreated, Step, PageForm
<1>85. Works("StackDokployCreated", StackDokployCreated)
  BY DEF StackDokployCreated, Step, PageForm
<1>86. Works("StackTemplateCreated", StackTemplateCreated)
  BY DEF StackTemplateCreated, Step, PageForm
<1> HIDE DEF Works
<1> QED
  BY <1>1, <1>2, <1>3, <1>4, <1>5, <1>6, <1>7, <1>8, <1>9, <1>10, <1>11, <1>12, <1>13, <1>14,
     <1>15, <1>16, <1>17, <1>18, <1>19, <1>20, <1>21, <1>22, <1>23, <1>24, <1>25, <1>26, <1>27,
     <1>28, <1>29, <1>30, <1>31, <1>32, <1>33, <1>34, <1>35, <1>36, <1>37, <1>38, <1>39, <1>40,
     <1>41, <1>42, <1>43, <1>44, <1>45, <1>46, <1>47, <1>48, <1>49, <1>50, <1>51, <1>52, <1>53,
     <1>54, <1>55, <1>56, <1>57, <1>58, <1>59, <1>60, <1>61, <1>62, <1>63, <1>64, <1>65, <1>66,
     <1>67, <1>68, <1>69, <1>70, <1>71, <1>72, <1>73, <1>74, <1>75, <1>76, <1>77, <1>78, <1>79,
     <1>80, <1>81, <1>82, <1>83, <1>84, <1>85, <1>86
  DEF Component

-----------------------------------------------------------------------------
(* The inductive invariant of a form                                       *)

Datum == [value : Values, change : Values \cup {Nothing}, rest : BOOLEAN]

PanelTyped ==
    /\ name \in Names /\ field \in this.fields
    /\ server \in Datum /\ shown \in Datum
    /\ box \in [value : Values, dirty : BOOLEAN]
    /\ panel \in {"open", "closed", "gone"}
    /\ fetcher \in [state : {"idle", "submitting", "loading"},
                    answer : {"none", "errors", "saved"}, sent : Values \cup {Nothing}]
    /\ request \in [kind : {"none", "save", "discard"}, value : Values \cup {Nothing},
                    done : {"no", "saved", "errors"}]
    /\ discarding \in BOOLEAN /\ errors \in BOOLEAN /\ dismissed \in BOOLEAN /\ saved \in BOOLEAN
    /\ typed \in Drafts \cup {Nothing} /\ tries \in Nat /\ others \in {0, 1}
    /\ panel = "closed" => this.panel # "inline"

\* A fetcher that is submitting has one request in flight, which carries what it sent;
\* only a row that was closed leaves a request behind.
RequestOK ==
    /\ request.kind = "none" => request = NoRequest
    /\ request.kind = "save" => request.value \in Values
    /\ request.kind = "discard" => request.value = Nothing /\ this.discards = "here"
    /\ fetcher.state = "submitting" => request.kind # "none" /\ request.value = fetcher.sent
    /\ fetcher.state # "submitting" =>
         request = NoRequest \/ (this.panel = "row" /\ fetcher.state = "idle")
    /\ fetcher.state = "loading" => fetcher.answer # "none"
    /\ panel = "gone" => ~Pending /\ ~discarding /\ request = NoRequest
    /\ discarding => this.discards = "beside"

\* While nobody else writes, the page shows the data of the server, but for a save that
\* has not answered yet; what an accepted save of a plain form sent is that data.
DataOK ==
    /\ field = "none" \/ this.creates =>
         /\ server.value = "start" /\ shown.value = "start"
         /\ server.change = Nothing /\ shown.change = Nothing
    /\ this.locks = "no" => server.change = Nothing /\ shown.change = Nothing
    /\ others = 0 => server = shown \/ request.done = "saved"
    /\ Plain(this) /\ others = 0 /\ field # "none" =>
         /\ request.done = "saved" /\ request.kind = "save" => Current(server) = request.value
         /\ fetcher.state = "loading" /\ fetcher.answer = "saved" => Current(shown) = fetcher.sent

\* A draft is in the field; of a form that loses drafts, it or the empty value.
DraftOK ==
    /\ field = "none" => typed = Nothing /\ box.value = "start"
    /\ this.panel = "row" /\ panel = "closed" => typed = Nothing
    /\ typed # Nothing /\ panel # "gone" =>
         IF name \in LoseDraft THEN this.creates => box.value \in {typed, "start"}
         ELSE box.value = typed /\ (field = "free" => box.dirty)

\* A free field without a draft is untouched, also while a request is pending.
FreeOK ==
    field = "free" /\ name \notin KeepText /\ typed = Nothing /\ panel # "gone" => ~box.dirty

\* A save was accepted, and the effects of its success have not run.
Landing ==
    \/ fetcher.state = "submitting" /\ request.done = "saved"
    \/ fetcher.state = "loading" /\ fetcher.answer = "saved"

\* While nobody else writes, a field without a draft holds the data that is shown, or is
\* about to be brought back to it.
CopyOK ==
    /\ others = 0 /\ setting \notin Exempt /\ typed = Nothing /\ panel # "gone" =>
         \/ field = "free" /\ ~box.dirty
         \/ box.value = Current(shown)
         \/ Landing /\ (RestoresIn(this, field, this.onSuccess) \/ "leave" \in this.onSuccess)
    /\ Plain(this) /\ field = "free" /\ others = 0 /\ typed = Nothing =>
         ~Pending /\ (~box.dirty \/ box.value = Current(shown))

\* Errors that the user left are cleared until the next answer, which clears the mark.
ErrorsOK ==
    /\ errors => this.errors # "none"
    /\ dismissed /\ name \notin KeepErrors => fetcher.state # "loading" /\ (Pending \/ ~errors)

\* What a form created is still in the field only until its success is seen, and then
\* the field is empty again, which cannot be submitted.
CreatedOK ==
    /\ saved => this.creates
    /\ this.creates /\ request.kind = "save" => request.value # "start"
    /\ saved /\ panel # "gone" =>
         \/ /\ fetcher.state = "submitting" /\ request.done = "saved"
            /\ typed \in {Nothing, request.value}
         \/ /\ fetcher.state = "loading" /\ fetcher.answer = "saved"
            /\ typed \in {Nothing, fetcher.sent}
         \/ ~Pending /\ typed = Nothing

PanelIInv ==
    /\ PanelTyped /\ RequestOK /\ DataOK /\ DraftOK
    /\ FreeOK /\ CopyOK /\ ErrorsOK /\ CreatedOK

\* What the table says of the form that is followed.
LEMMA FormFacts ==
    ASSUME PanelTyped
    PROVE  /\ FormOK(name, this) /\ FieldOK(name, this, field)
           /\ field \in {"free", "copy", "kept", "none"}
           /\ Current(server) \in Values /\ Current(shown) \in Values
<1>1. Works(name, this)
  BY EveryForm, FormBounds DEF PanelTyped, this
<1>2. /\ FormOK(name, this) /\ FieldOK(name, this, field)
      /\ field \in {"free", "copy", "kept", "none"}
  BY <1>1 DEF Works, PanelTyped, FormOK
<1> QED
  BY <1>2 DEF PanelTyped, Datum, Current, Values, Nothing, Drafts

\* What a handler does, in the words of the table.
LEMMA EffectsDo ==
    ASSUME PanelTyped, NEW e, NEW d \in Datum, NEW f, Effects(e, d, f)
    PROVE  /\ panel' = IF "leave" \in e THEN "gone"
                       ELSE IF "close" \in e /\ this.panel # "inline" THEN "closed" ELSE panel
           /\ box' = IF RestoresIn(this, field, e) THEN [value |-> Current(d), dirty |-> FALSE]
                     ELSE box
           /\ errors' \in BOOLEAN /\ (errors' => errors)
           /\ ClearsIn(this, e) => ~errors' \/ this.errors = "none"
           /\ VanishesIn(this, e) => ~errors'
           /\ fetcher' = IF VanishesIn(this, e) THEN Fresh ELSE f
           /\ panel' \in {"open", "closed", "gone"}
           /\ panel' = "closed" => this.panel # "inline"
           /\ box' \in [value : Values, dirty : BOOLEAN]
<1>1. /\ Restores(e) <=> RestoresIn(this, field, e)
      /\ Vanishes(e) <=> VanishesIn(this, e)
      /\ Closes(e) <=> "close" \in e /\ this.panel # "inline"
  BY DEF Restores, Vanishes, Closes, Unmounts, RestoresIn, VanishesIn, UnmountsIn
<1>2. Current(d) \in Values
  BY DEF Datum, Current, Values, Nothing, Drafts
<1>3. /\ panel' = IF "leave" \in e THEN "gone"
                  ELSE IF "close" \in e /\ this.panel # "inline" THEN "closed" ELSE panel
      /\ box' = IF RestoresIn(this, field, e) THEN [value |-> Current(d), dirty |-> FALSE]
                ELSE box
      /\ fetcher' = IF VanishesIn(this, e) THEN Fresh ELSE f
  BY <1>1 DEF Effects
<1>4. errors' = (errors /\ ~VanishesIn(this, e)
                  /\ ("clear" \in e => this.errors \notin {"effect", "callback"}))
  BY <1>1 DEF Effects
<1>5. /\ errors' \in BOOLEAN /\ (errors' => errors) /\ (VanishesIn(this, e) => ~errors')
      /\ ClearsIn(this, e) => ~errors' \/ this.errors = "none"
  BY <1>4 DEF ClearsIn
<1>6. panel' \in {"open", "closed", "gone"} /\ (panel' = "closed" => this.panel # "inline")
  BY <1>3 DEF PanelTyped
<1>7. box' \in [value : Values, dirty : BOOLEAN]
  BY <1>2, <1>3 DEF PanelTyped
<1> QED
  BY <1>3, <1>5, <1>6, <1>7

\* The user: the form is opened, typed in, submitted, cancelled or closed.
LEMMA OpenKeeps == ASSUME PanelIInv, Open PROVE PanelIInv'
<1>1. /\ PanelTyped /\ RequestOK /\ DataOK /\ DraftOK /\ FreeOK /\ CopyOK /\ ErrorsOK /\ CreatedOK
      /\ FormOK(name, this) /\ FieldOK(name, this, field)
      /\ field \in {"free", "copy", "kept", "none"}
      /\ Current(server) \in Values /\ Current(shown) \in Values
  BY FormFacts DEF PanelIInv
<1>2. /\ panel = "closed" /\ panel' = "open"
      /\ \/ this.panel = "row" /\ box' = [value |-> Current(shown), dirty |-> FALSE]
         \/ this.panel # "row" /\ box' = box
      /\ UNCHANGED <<name, field, this, server, shown, fetcher, request, discarding, errors,
                     typed, dismissed, tries, others, saved>>
  BY <1>1 DEF Open, setting, input, data, io, bounds, this
<1>3. PanelTyped'
  <2>1. box' \in [value : Values, dirty : BOOLEAN]
    <3>1. CASE box' = box
      BY <1>1, <3>1 DEF PanelTyped
    <3>2. CASE box' = [value |-> Current(shown), dirty |-> FALSE]
      BY <1>1, <3>2
    <3> QED
      BY <1>2, <3>1, <3>2
  <2> QED
    BY <1>1, <1>2, <2>1 DEF PanelTyped
<1>4. RequestOK'
  BY <1>1, <1>2 DEF RequestOK, Pending, NoRequest
<1>5. DataOK'
  BY <1>1, <1>2 DEF DataOK, RequestOK, Current, Nothing
<1>6. DraftOK'
  BY <1>1, <1>2 DEF DraftOK, FormOK, FieldOK
<1>7. FreeOK'
  BY <1>1, <1>2 DEF FreeOK
<1>8. CopyOK'
  BY <1>1, <1>2 DEF CopyOK, Landing, Pending, setting
<1>9. ErrorsOK'
  BY <1>1, <1>2 DEF ErrorsOK, Pending
<1>10. CreatedOK'
  BY <1>1, <1>2 DEF CreatedOK, Pending
<1> QED
  BY <1>3, <1>4, <1>5, <1>6, <1>7, <1>8, <1>9, <1>10 DEF PanelIInv

LEMMA TypeKeeps == ASSUME PanelIInv, Type PROVE PanelIInv'
<1>1. /\ PanelTyped /\ RequestOK /\ DataOK /\ DraftOK /\ FreeOK /\ CopyOK /\ ErrorsOK /\ CreatedOK
      /\ FormOK(name, this) /\ FieldOK(name, this, field)
      /\ field \in {"free", "copy", "kept", "none"}
      /\ Current(server) \in Values /\ Current(shown) \in Values
  BY FormFacts DEF PanelIInv
<1>2. PICK v \in Drafts : box' = [value |-> v, dirty |-> TRUE] /\ typed' = v
  BY DEF Type
<1>3. /\ panel = "open" /\ field # "none" /\ tries' = tries + 1 /\ saved' = FALSE
      /\ box' = [value |-> v, dirty |-> TRUE] /\ typed' = v
      /\ UNCHANGED <<name, field, this, server, shown, panel, fetcher, request, discarding,
                     errors, dismissed, others>>
  BY <1>1, <1>2 DEF Type, setting, input, data, io, bounds, this
<1>4. PanelTyped'
  <2>1. box' \in [value : Values, dirty : BOOLEAN] /\ typed' \in Drafts \cup {Nothing}
    BY <1>2 DEF Values
  <2>2. tries' \in Nat
    BY <1>1, <1>3 DEF PanelTyped
  <2>3. /\ panel = "open"
        /\ UNCHANGED <<name, field, this, server, shown, panel, fetcher, request, discarding,
                       errors, dismissed, others>>
        /\ saved' \in BOOLEAN
    BY <1>3
  <2> QED
    BY <1>1, <2>1, <2>2, <2>3 DEF PanelTyped
<1>5. RequestOK'
  BY <1>1, <1>2, <1>3 DEF RequestOK, Pending, NoRequest
<1>6. DataOK'
  BY <1>1, <1>2, <1>3 DEF DataOK, RequestOK, Current, Nothing
<1>7. DraftOK'
  BY <1>1, <1>2, <1>3 DEF DraftOK, Nothing, Drafts, FormOK
<1>8. FreeOK'
  BY <1>1, <1>2, <1>3 DEF FreeOK, Nothing, Drafts
<1>9. CopyOK'
  BY <1>1, <1>2, <1>3 DEF CopyOK, Nothing, Drafts
<1>10. ErrorsOK'
  BY <1>1, <1>2, <1>3 DEF ErrorsOK, Pending
<1>11. CreatedOK'
  BY <1>1, <1>2, <1>3 DEF CreatedOK, Pending
<1> QED
  BY <1>4, <1>5, <1>6, <1>7, <1>8, <1>9, <1>10, <1>11 DEF PanelIInv

LEMMA SubmitKeeps == ASSUME PanelIInv, Submit PROVE PanelIInv'
<1>1. /\ PanelTyped /\ RequestOK /\ DataOK /\ DraftOK /\ FreeOK /\ CopyOK /\ ErrorsOK /\ CreatedOK
      /\ FormOK(name, this) /\ FieldOK(name, this, field)
      /\ field \in {"free", "copy", "kept", "none"}
      /\ Current(server) \in Values /\ Current(shown) \in Values
  BY FormFacts DEF PanelIInv
<1>2. /\ panel = "open" /\ ~Pending /\ Filled /\ errors' \in BOOLEAN
      /\ errors' => errors \/ this.errors = "effect"
      /\ request = NoRequest
      /\ request' = [kind |-> "save", value |-> Shown, done |-> "no"]
      /\ fetcher' = [fetcher EXCEPT !.state = "submitting", !.sent = Shown]
      /\ UNCHANGED <<name, field, this, server, shown, box, panel, discarding, typed,
                     dismissed, tries, others, saved>>
  BY <1>1 DEF Submit, Start, SubmitButton, FormOK, PanelTyped, RequestOK, Pending,
         setting, input, data, io, bounds, this
<1>3. Shown \in Values
  BY <1>1 DEF Shown, PanelTyped
<1>4. PanelTyped'
  BY <1>1, <1>2, <1>3 DEF PanelTyped
<1>5. RequestOK'
  BY <1>1, <1>2, <1>3 DEF RequestOK
<1>6. DataOK'
  BY <1>1, <1>2, <1>3 DEF DataOK, NoRequest
<1>7. DraftOK'
  BY <1>1, <1>2, <1>3 DEF DraftOK
<1>8. FreeOK'
  BY <1>1, <1>2, <1>3 DEF FreeOK
<1>9. CopyOK'
  BY <1>1, <1>2, <1>3 DEF CopyOK, Landing, Pending, Shown, Filled, setting
<1>10. ErrorsOK'
  BY <1>1, <1>2, <1>3 DEF ErrorsOK, Pending
<1>11. CreatedOK'
  BY <1>1, <1>2, <1>3 DEF CreatedOK, Pending, Filled, Shown, Current, DataOK, DraftOK, FreeOK,
         FormOK, FieldOK, PanelTyped, Drafts
<1> QED
  BY <1>4, <1>5, <1>6, <1>7, <1>8, <1>9, <1>10, <1>11 DEF PanelIInv

LEMMA DiscardHereKeeps == ASSUME PanelIInv, DiscardHere PROVE PanelIInv'
<1>1. /\ PanelTyped /\ RequestOK /\ DataOK /\ DraftOK /\ FreeOK /\ CopyOK /\ ErrorsOK /\ CreatedOK
      /\ FormOK(name, this) /\ FieldOK(name, this, field)
      /\ field \in {"free", "copy", "kept", "none"}
      /\ Current(server) \in Values /\ Current(shown) \in Values
  BY FormFacts DEF PanelIInv
<1>2. /\ panel # "gone" /\ ~Pending /\ this.discards = "here" /\ errors' \in BOOLEAN
      /\ errors' => errors \/ this.errors = "effect"
      /\ request = NoRequest
      /\ request' = [kind |-> "discard", value |-> Nothing, done |-> "no"]
      /\ fetcher' = [fetcher EXCEPT !.state = "submitting", !.sent = Nothing]
      /\ UNCHANGED <<name, field, this, server, shown, box, panel, discarding, typed,
                     dismissed, tries, others, saved>>
  BY <1>1 DEF DiscardHere, Start, SubmitButton, FormOK, PanelTyped, RequestOK, Pending,
         setting, input, data, io, bounds, this
<1>3. PanelTyped'
  BY <1>1, <1>2 DEF PanelTyped
<1>4. RequestOK'
  BY <1>1, <1>2 DEF RequestOK, Pending, NoRequest
<1>5. DataOK'
  BY <1>1, <1>2 DEF DataOK, NoRequest
<1>6. DraftOK'
  BY <1>1, <1>2 DEF DraftOK
<1>7. FreeOK'
  BY <1>1, <1>2 DEF FreeOK
<1>8. CopyOK'
  BY <1>1, <1>2 DEF CopyOK, Landing, Pending, Plain, setting
<1>9. ErrorsOK'
  BY <1>1, <1>2 DEF ErrorsOK, Pending
<1>10. CreatedOK'
  BY <1>1, <1>2 DEF CreatedOK, FormOK
<1> QED
  BY <1>3, <1>4, <1>5, <1>6, <1>7, <1>8, <1>9, <1>10 DEF PanelIInv

LEMMA DiscardBesideKeeps == ASSUME PanelIInv, DiscardBeside PROVE PanelIInv'
<1>1. /\ PanelTyped /\ RequestOK /\ DataOK /\ DraftOK /\ FreeOK /\ CopyOK /\ ErrorsOK /\ CreatedOK
      /\ FormOK(name, this) /\ FieldOK(name, this, field)
      /\ field \in {"free", "copy", "kept", "none"}
      /\ Current(server) \in Values /\ Current(shown) \in Values
  BY FormFacts DEF PanelIInv
<1>2. /\ panel # "gone" /\ this.discards = "beside" /\ discarding' = TRUE
      /\ UNCHANGED <<name, field, this, server, shown, box, panel, fetcher, request, errors,
                     typed, dismissed, tries, others, saved>>
  BY <1>1 DEF DiscardBeside, setting, input, data, io, bounds, this
<1>3. PanelTyped'
  BY <1>1, <1>2 DEF PanelTyped
<1>4. RequestOK'
  BY <1>1, <1>2 DEF RequestOK, Pending, NoRequest
<1>5. DataOK'
  BY <1>1, <1>2 DEF DataOK, RequestOK, Current, Nothing
<1>6. DraftOK'
  BY <1>1, <1>2 DEF DraftOK
<1>7. FreeOK'
  BY <1>1, <1>2 DEF FreeOK
<1>8. CopyOK'
  BY <1>1, <1>2 DEF CopyOK, Landing, Pending, setting
<1>9. ErrorsOK'
  BY <1>1, <1>2 DEF ErrorsOK, Pending
<1>10. CreatedOK'
  BY <1>1, <1>2 DEF CreatedOK, Pending
<1> QED
  BY <1>3, <1>4, <1>5, <1>6, <1>7, <1>8, <1>9, <1>10 DEF PanelIInv

LEMMA CancelKeeps == ASSUME PanelIInv, Cancel PROVE PanelIInv'
<1> DEFINE e == this.onCancel
<1>1. /\ PanelTyped /\ RequestOK /\ DataOK /\ DraftOK /\ FreeOK /\ CopyOK /\ ErrorsOK /\ CreatedOK
      /\ FormOK(name, this) /\ FieldOK(name, this, field)
      /\ field \in {"free", "copy", "kept", "none"}
      /\ Current(server) \in Values /\ Current(shown) \in Values
  BY FormFacts DEF PanelIInv
<1>2. Effects(e, shown, fetcher) /\ shown \in Datum
  BY <1>1 DEF Cancel, PanelTyped
<1>3. /\ panel' = IF "leave" \in e THEN "gone"
                  ELSE IF "close" \in e /\ this.panel # "inline" THEN "closed" ELSE panel
      /\ box' = IF RestoresIn(this, field, e) THEN [value |-> Current(shown), dirty |-> FALSE]
                ELSE box
      /\ errors' \in BOOLEAN /\ (errors' => errors) /\ (VanishesIn(this, e) => ~errors')
      /\ ClearsIn(this, e) => ~errors' \/ this.errors = "none"
      /\ fetcher' = IF VanishesIn(this, e) THEN Fresh ELSE fetcher
      /\ panel' \in {"open", "closed", "gone"} /\ (panel' = "closed" => this.panel # "inline")
      /\ box' \in [value : Values, dirty : BOOLEAN]
  <2> HIDE DEF e
  <2> QED
    BY <1>1, <1>2, EffectsDo DEF PanelTyped
<1>4. /\ panel = "open" /\ e # {} /\ typed' = Nothing /\ dismissed' = (dismissed \/ ~Pending)
      /\ UNCHANGED <<name, field, this, server, shown, request, discarding, tries, others,
                     saved>>
  BY <1>1 DEF Cancel, setting, data, bounds, this
<1>5. /\ "leave" \notin e /\ (VanishesIn(this, e) <=> this.panel = "row")
      /\ name \in KeepErrors \/ ClearsIn(this, e)
      /\ \/ RestoresIn(this, field, e) \/ field = "none"
         \/ setting \in Exempt /\ field # "free"
      /\ ~Plain(this)
  BY <1>1, <1>4 DEF FormOK, FieldOK, VanishesIn, Plain, setting
<1> HIDE DEF e
<1>6. PanelTyped'
  BY <1>1, <1>3, <1>4, <1>5 DEF PanelTyped, Fresh
<1>7. RequestOK'
  BY <1>1, <1>3, <1>4, <1>5 DEF RequestOK, Fresh
<1>8. DataOK'
  BY <1>1, <1>3, <1>4, <1>5 DEF DataOK, Plain
<1>9. DraftOK'
  BY <1>1, <1>3, <1>4, <1>5 DEF DraftOK, DataOK, Current, Nothing
<1>10. FreeOK'
  BY <1>1, <1>3, <1>4, <1>5 DEF FreeOK
<1>11. CopyOK'
  BY <1>1, <1>3, <1>4, <1>5 DEF CopyOK, Current, DataOK, DraftOK, setting
<1>12. ErrorsOK'
  BY <1>1, <1>3, <1>4, <1>5 DEF ErrorsOK, Pending, PanelTyped, Fresh
<1>13. CreatedOK'
  BY <1>1, <1>3, <1>4, <1>5 DEF CreatedOK, Pending, PanelTyped, FormOK
<1> QED
  BY <1>6, <1>7, <1>8, <1>9, <1>10, <1>11, <1>12, <1>13 DEF PanelIInv

LEMMA CloseKeeps == ASSUME PanelIInv, Close PROVE PanelIInv'
<1> DEFINE e == this.onClose \cup {"close"}
<1>1. /\ PanelTyped /\ RequestOK /\ DataOK /\ DraftOK /\ FreeOK /\ CopyOK /\ ErrorsOK /\ CreatedOK
      /\ FormOK(name, this) /\ FieldOK(name, this, field)
      /\ field \in {"free", "copy", "kept", "none"}
      /\ Current(server) \in Values /\ Current(shown) \in Values
  BY FormFacts DEF PanelIInv
<1>2. Effects(e, shown, fetcher) /\ shown \in Datum
  BY <1>1 DEF Close, PanelTyped
<1>3. /\ panel' = IF "leave" \in e THEN "gone"
                  ELSE IF "close" \in e /\ this.panel # "inline" THEN "closed" ELSE panel
      /\ box' = IF RestoresIn(this, field, e) THEN [value |-> Current(shown), dirty |-> FALSE]
                ELSE box
      /\ errors' \in BOOLEAN /\ (errors' => errors) /\ (VanishesIn(this, e) => ~errors')
      /\ ClearsIn(this, e) => ~errors' \/ this.errors = "none"
      /\ fetcher' = IF VanishesIn(this, e) THEN Fresh ELSE fetcher
      /\ panel' \in {"open", "closed", "gone"} /\ (panel' = "closed" => this.panel # "inline")
      /\ box' \in [value : Values, dirty : BOOLEAN]
  <2> HIDE DEF e
  <2> QED
    BY <1>1, <1>2, EffectsDo DEF PanelTyped
<1>4. /\ panel = "open" /\ this.panel \in {"accordion", "dialog"}
      /\ typed' = IF RestoresIn(this, field, e) THEN Nothing ELSE typed
      /\ dismissed' = (dismissed \/ ~Pending)
      /\ UNCHANGED <<name, field, this, server, shown, request, discarding, tries, others,
                     saved>>
  BY <1>1 DEF Close, Restores, Vanishes, Closes, Unmounts, RestoresIn, VanishesIn, UnmountsIn,
         setting, data, bounds, this
<1>5. /\ "leave" \notin e /\ ~VanishesIn(this, e)
      /\ name \in KeepErrors \/ ClearsIn(this, e)
  BY <1>1, <1>4 DEF FormOK, VanishesIn
<1> HIDE DEF e
<1>6. PanelTyped'
  BY <1>1, <1>3, <1>4, <1>5 DEF PanelTyped
<1>7. RequestOK'
  BY <1>1, <1>3, <1>4, <1>5 DEF RequestOK, Pending, NoRequest
<1>8. DataOK'
  BY <1>1, <1>3, <1>4, <1>5 DEF DataOK, RequestOK, Current, Nothing
<1>9. DraftOK'
  BY <1>1, <1>3, <1>4, <1>5 DEF DraftOK, DataOK, Current, Nothing
<1>10. FreeOK'
  BY <1>1, <1>3, <1>4, <1>5 DEF FreeOK
<1>11. CopyOK'
  BY <1>1, <1>3, <1>4, <1>5 DEF CopyOK, Landing, Plain, setting
<1>12. ErrorsOK'
  BY <1>1, <1>3, <1>4, <1>5 DEF ErrorsOK, Pending
<1>13. CreatedOK'
  BY <1>1, <1>3, <1>4, <1>5 DEF CreatedOK, Pending
<1> QED
  BY <1>6, <1>7, <1>8, <1>9, <1>10, <1>11, <1>12, <1>13 DEF PanelIInv

\* The server, and another user.
LEMMA SaveKeeps == ASSUME PanelIInv, Save PROVE PanelIInv'
<1>1. /\ PanelTyped /\ RequestOK /\ DataOK /\ DraftOK /\ FreeOK /\ CopyOK /\ ErrorsOK /\ CreatedOK
      /\ FormOK(name, this) /\ FieldOK(name, this, field)
      /\ field \in {"free", "copy", "kept", "none"}
      /\ Current(server) \in Values /\ Current(shown) \in Values
  BY FormFacts DEF PanelIInv
<1>2. /\ request.kind # "none" /\ request.done = "no"
      /\ request' = [request EXCEPT !.done = "saved"]
      /\ server' = IF request.kind = "discard" THEN WithoutChange ELSE Saved(request.value)
      /\ saved' = (this.creates /\ request.value = box.value)
      /\ UNCHANGED <<name, field, this, shown, box, panel, fetcher, discarding, errors, typed,
                     dismissed, tries, others>>
  BY <1>1 DEF Save, setting, input, data, io, bounds, this
<1>3. server' \in Datum /\ saved' \in BOOLEAN /\ request.kind \in {"save", "discard"}
  BY <1>1, <1>2 DEF PanelTyped, RequestOK, Datum, Saved, WithoutChange, Values, Nothing
<1>4. PanelTyped'
  BY <1>1, <1>2, <1>3 DEF PanelTyped
<1>5. RequestOK'
  BY <1>1, <1>2, <1>3 DEF RequestOK, Pending, NoRequest
<1>6. DataOK'
  BY <1>1, <1>2, <1>3 DEF DataOK, Current, Plain, Saved, WithoutChange
<1>7. DraftOK'
  BY <1>1, <1>2, <1>3 DEF DraftOK
<1>8. FreeOK'
  BY <1>1, <1>2, <1>3 DEF FreeOK
<1>9. CopyOK'
  BY <1>1, <1>2, <1>3 DEF CopyOK, Landing, Pending, setting
<1>10. ErrorsOK'
  BY <1>1, <1>2, <1>3 DEF ErrorsOK, Pending
<1>11. CreatedOK'
  BY <1>1, <1>2, <1>3 DEF CreatedOK, RequestOK, DraftOK, FormOK, NoRequest, PanelTyped
<1> QED
  BY <1>4, <1>5, <1>6, <1>7, <1>8, <1>9, <1>10, <1>11 DEF PanelIInv

LEMMA RejectKeeps == ASSUME PanelIInv, Reject PROVE PanelIInv'
<1>1. /\ PanelTyped /\ RequestOK /\ DataOK /\ DraftOK /\ FreeOK /\ CopyOK /\ ErrorsOK /\ CreatedOK
      /\ FormOK(name, this) /\ FieldOK(name, this, field)
      /\ field \in {"free", "copy", "kept", "none"}
      /\ Current(server) \in Values /\ Current(shown) \in Values
  BY FormFacts DEF PanelIInv
<1>2. /\ request.kind # "none" /\ request.done = "no"
      /\ request' = [request EXCEPT !.done = "errors"]
      /\ UNCHANGED <<name, field, this, server, shown, box, panel, fetcher, discarding, errors,
                     typed, dismissed, tries, others, saved>>
  BY <1>1 DEF Reject, setting, input, data, io, bounds, this
<1>3. PanelTyped'
  BY <1>1, <1>2 DEF PanelTyped
<1>4. RequestOK'
  BY <1>1, <1>2 DEF RequestOK, Pending, NoRequest
<1>5. DataOK'
  BY <1>1, <1>2 DEF DataOK, RequestOK, Current, Nothing
<1>6. DraftOK'
  BY <1>1, <1>2 DEF DraftOK
<1>7. FreeOK'
  BY <1>1, <1>2 DEF FreeOK
<1>8. CopyOK'
  BY <1>1, <1>2 DEF CopyOK, Landing, Pending, setting
<1>9. ErrorsOK'
  BY <1>1, <1>2 DEF ErrorsOK, Pending
<1>10. CreatedOK'
  BY <1>1, <1>2 DEF CreatedOK, Pending
<1> QED
  BY <1>3, <1>4, <1>5, <1>6, <1>7, <1>8, <1>9, <1>10 DEF PanelIInv

LEMMA OtherUserKeeps == ASSUME PanelIInv, OtherUser PROVE PanelIInv'
<1>1. /\ PanelTyped /\ RequestOK /\ DataOK /\ DraftOK /\ FreeOK /\ CopyOK /\ ErrorsOK /\ CreatedOK
      /\ FormOK(name, this) /\ FieldOK(name, this, field)
      /\ field \in {"free", "copy", "kept", "none"}
      /\ Current(server) \in Values /\ Current(shown) \in Values
  BY FormFacts DEF PanelIInv
<1>2. /\ server' \in {Saved("theirs"), WithoutChange, [server EXCEPT !.rest = TRUE]}
      /\ others < 1 /\ others' = others + 1
      /\ UNCHANGED <<name, field, this, shown, box, panel, fetcher, request, discarding,
                     errors, typed, dismissed, tries, saved>>
  BY <1>1 DEF OtherUser, setting, input, data, io, bounds, this
<1>3. server' \in Datum /\ others' = 1
  <2>1. server' \in Datum
    BY <1>1, <1>2 DEF PanelTyped, Datum, Saved, WithoutChange, Values, Nothing
  <2>2. others' = 1
    BY <1>1, <1>2 DEF PanelTyped
  <2> QED
    BY <2>1, <2>2
<1>4. PanelTyped'
  BY <1>1, <1>2, <1>3 DEF PanelTyped
<1>5. RequestOK'
  BY <1>1, <1>2, <1>3 DEF RequestOK, Pending, NoRequest
<1>6. DataOK'
  BY <1>1, <1>2, <1>3 DEF DataOK, Datum, Fresh, Saved, WithoutChange
<1>7. DraftOK'
  BY <1>1, <1>2, <1>3 DEF DraftOK
<1>8. FreeOK'
  BY <1>1, <1>2, <1>3 DEF FreeOK
<1>9. CopyOK'
  BY <1>1, <1>2, <1>3 DEF CopyOK, Landing, Pending, Current
<1>10. ErrorsOK'
  BY <1>1, <1>2, <1>3 DEF ErrorsOK, Pending
<1>11. CreatedOK'
  BY <1>1, <1>2, <1>3 DEF CreatedOK, Pending
<1> QED
  BY <1>4, <1>5, <1>6, <1>7, <1>8, <1>9, <1>10, <1>11 DEF PanelIInv

\* The data of the page is read again, and an effect on an earlier success runs again.
LEMMA RerunKeeps ==
    ASSUME PanelIInv, Requery, Effects(this.onSuccess, server, fetcher),
           this.followsData # "no", ~Pending
    PROVE  PanelIInv'
<1> DEFINE e == this.onSuccess
<1>1. /\ PanelTyped /\ RequestOK /\ DataOK /\ DraftOK /\ FreeOK /\ CopyOK /\ ErrorsOK /\ CreatedOK
      /\ FormOK(name, this) /\ FieldOK(name, this, field)
      /\ field \in {"free", "copy", "kept", "none"}
      /\ Current(server) \in Values /\ Current(shown) \in Values
  BY FormFacts DEF PanelIInv
<1>2. Effects(e, server, fetcher) /\ server \in Datum
  BY <1>1 DEF PanelTyped
<1>3. /\ panel' = IF "leave" \in e THEN "gone"
                  ELSE IF "close" \in e /\ this.panel # "inline" THEN "closed" ELSE panel
      /\ box' = IF RestoresIn(this, field, e) THEN [value |-> Current(server), dirty |-> FALSE]
                ELSE box
      /\ errors' \in BOOLEAN /\ (errors' => errors) /\ (VanishesIn(this, e) => ~errors')
      /\ ClearsIn(this, e) => ~errors' \/ this.errors = "none"
      /\ fetcher' = IF VanishesIn(this, e) THEN Fresh ELSE fetcher
      /\ panel' \in {"open", "closed", "gone"} /\ (panel' = "closed" => this.panel # "inline")
      /\ box' \in [value : Values, dirty : BOOLEAN]
  <2> HIDE DEF e
  <2> QED
    BY <1>1, <1>2, EffectsDo DEF PanelTyped
<1>4. /\ panel # "gone" /\ shown' = server
      /\ UNCHANGED <<name, field, this, server, request, discarding, typed, dismissed, tries,
                     others, saved>>
  BY <1>1 DEF Requery, setting, data, bounds, this
<1>5. "leave" \notin e /\ ~VanishesIn(this, e) /\ RestoresIn(this, field, e)
  BY <1>1 DEF FormOK, FieldOK, VanishesIn
<1> HIDE DEF e
<1>6. PanelTyped'
  BY <1>1, <1>3, <1>4, <1>5 DEF PanelTyped
<1>7. RequestOK'
  BY <1>1, <1>3, <1>4, <1>5 DEF RequestOK, Pending, NoRequest
<1>8. DataOK'
  BY <1>1, <1>3, <1>4, <1>5 DEF DataOK, Plain
<1>9. DraftOK'
  BY <1>1, <1>3, <1>4, <1>5 DEF DraftOK, DataOK, FormOK, Current
<1>10. FreeOK'
  BY <1>1, <1>3, <1>4, <1>5 DEF FreeOK
<1>11. CopyOK'
  BY <1>1, <1>3, <1>4, <1>5 DEF CopyOK, Landing, Pending, Current
<1>12. ErrorsOK'
  BY <1>1, <1>3, <1>4, <1>5 DEF ErrorsOK, Pending
<1>13. CreatedOK'
  BY <1>1, <1>3, <1>4, <1>5 DEF CreatedOK, Pending
<1> QED
  BY <1>6, <1>7, <1>8, <1>9, <1>10, <1>11, <1>12, <1>13 DEF PanelIInv

\* The data of the page is read again, and nothing else changes but the copied errors.
LEMMA FollowKeeps ==
    ASSUME PanelIInv, Requery, UNCHANGED <<box, panel, fetcher>>, errors' \in BOOLEAN,
           errors' = errors \/ (this.followsData # "no" /\ this.errors = "effect")
    PROVE  PanelIInv'
<1>1. /\ PanelTyped /\ RequestOK /\ DataOK /\ DraftOK /\ FreeOK /\ CopyOK /\ ErrorsOK /\ CreatedOK
      /\ FormOK(name, this) /\ FieldOK(name, this, field)
      /\ field \in {"free", "copy", "kept", "none"}
      /\ Current(server) \in Values /\ Current(shown) \in Values
  BY FormFacts DEF PanelIInv
<1>2. /\ panel # "gone" /\ shown' = server
      /\ UNCHANGED <<name, field, this, server, request, discarding, typed,
                     dismissed, tries, others, saved>>
  BY <1>1 DEF Requery, setting, bounds, this
<1>3. PanelTyped'
  BY <1>1, <1>2 DEF PanelTyped
<1>4. RequestOK'
  BY <1>1, <1>2 DEF RequestOK, Pending, NoRequest
<1>5. DataOK'
  BY <1>1, <1>2 DEF DataOK, RequestOK, Current, NoRequest
<1>6. DraftOK'
  BY <1>1, <1>2 DEF DraftOK
<1>7. FreeOK'
  BY <1>1, <1>2 DEF FreeOK
<1>8. CopyOK'
  BY <1>1, <1>2 DEF CopyOK, Landing, Pending, Current, RequestOK, DataOK, FreeOK, FieldOK,
         FormOK, setting, NoRequest
<1>9. ErrorsOK'
  BY <1>1, <1>2 DEF ErrorsOK, Pending, PanelTyped, FormOK
<1>10. CreatedOK'
  BY <1>1, <1>2 DEF CreatedOK, Pending
<1> QED
  BY <1>3, <1>4, <1>5, <1>6, <1>7, <1>8, <1>9, <1>10 DEF PanelIInv

LEMMA RequeryKeeps == ASSUME PanelIInv, Requery PROVE PanelIInv'
<1> DEFINE Again == /\ fetcher.answer = "saved" /\ ~Pending /\ this.followsData # "no"
                    /\ this.followsData = "value" => Current(server) # Current(shown)
<1>1. errors \in BOOLEAN
  BY DEF PanelIInv, PanelTyped
<1>2. CASE Again
  <2>1. Effects(this.onSuccess, server, fetcher)
    BY <1>2 DEF Requery, Rerun
  <2> QED
    BY <1>2, <2>1, RerunKeeps
<1>3. CASE ~Again
  <2>1. /\ UNCHANGED <<box, panel, fetcher>> /\ errors' \in BOOLEAN
        /\ errors' = errors \/ (this.followsData # "no" /\ this.errors = "effect")
    BY <1>1, <1>3 DEF Requery, Rerun
  <2> QED
    BY <2>1, FollowKeeps
<1> QED
  BY <1>2, <1>3

\* The answers.
LEMMA ReturnKeeps == ASSUME PanelIInv, Return PROVE PanelIInv'
<1>1. /\ PanelTyped /\ RequestOK /\ DataOK /\ DraftOK /\ FreeOK /\ CopyOK /\ ErrorsOK /\ CreatedOK
      /\ FormOK(name, this) /\ FieldOK(name, this, field)
      /\ field \in {"free", "copy", "kept", "none"}
      /\ Current(server) \in Values /\ Current(shown) \in Values
  BY FormFacts DEF PanelIInv
<1>2. /\ request.done \in {"saved", "errors"} /\ fetcher.state = "submitting"
      /\ shown' = IF request.done = "saved" THEN server ELSE shown
      /\ fetcher' = [fetcher EXCEPT !.state = "loading", !.answer = request.done]
      /\ errors' = (this.errors # "none" /\ request.done = "errors")
      /\ request' = NoRequest /\ dismissed' = FALSE
      /\ UNCHANGED <<name, field, this, server, box, panel, discarding, typed, tries, others,
                     saved>>
  BY <1>1 DEF Return, PanelTyped, setting, input, data, io, bounds, this
<1>3. PanelTyped'
  <2>1. /\ shown' \in Datum
        /\ fetcher' \in [state : {"idle", "submitting", "loading"},
                        answer : {"none", "errors", "saved"}, sent : Values \cup {Nothing}]
    BY <1>1, <1>2 DEF PanelTyped
  <2>2. request' \in [kind : {"none", "save", "discard"}, value : Values \cup {Nothing},
                      done : {"no", "saved", "errors"}]
    BY <1>2 DEF NoRequest
  <2> QED
    BY <1>1, <1>2, <2>1, <2>2 DEF PanelTyped
<1>4. RequestOK'
  BY <1>1, <1>2 DEF RequestOK, Pending, NoRequest
<1>5. DataOK'
  BY <1>1, <1>2 DEF DataOK, RequestOK, NoRequest, PanelTyped, Plain
<1>6. DraftOK'
  BY <1>1, <1>2 DEF DraftOK
<1>7. FreeOK'
  BY <1>1, <1>2 DEF FreeOK
<1>8. CopyOK'
  BY <1>1, <1>2 DEF CopyOK, Landing, Pending, Current, DataOK, FieldOK, setting
<1>9. ErrorsOK'
  BY <1>1, <1>2 DEF ErrorsOK, Pending
<1>10. CreatedOK'
  BY <1>1, <1>2 DEF CreatedOK, Pending, PanelTyped, NoRequest, RequestOK
<1> QED
  BY <1>3, <1>4, <1>5, <1>6, <1>7, <1>8, <1>9, <1>10 DEF PanelIInv

\* The fetcher is idle again, after a success or a refusal.
LEMMA AcceptedKeeps == ASSUME PanelIInv, Settle, fetcher.answer = "saved" PROVE PanelIInv'
<1> DEFINE e == this.onSuccess
           idle == [fetcher EXCEPT !.state = "idle"]
<1>1. /\ PanelTyped /\ RequestOK /\ DataOK /\ DraftOK /\ FreeOK /\ CopyOK /\ ErrorsOK /\ CreatedOK
      /\ FormOK(name, this) /\ FieldOK(name, this, field)
      /\ field \in {"free", "copy", "kept", "none"}
      /\ Current(server) \in Values /\ Current(shown) \in Values
  BY FormFacts DEF PanelIInv
<1>2. Effects(e, shown, idle) /\ shown \in Datum
  BY <1>1 DEF Settle, PanelTyped
<1>3. /\ panel' = IF "leave" \in e THEN "gone"
                  ELSE IF "close" \in e /\ this.panel # "inline" THEN "closed" ELSE panel
      /\ box' = IF RestoresIn(this, field, e) THEN [value |-> Current(shown), dirty |-> FALSE]
                ELSE box
      /\ errors' \in BOOLEAN /\ (errors' => errors) /\ (VanishesIn(this, e) => ~errors')
      /\ ClearsIn(this, e) => ~errors' \/ this.errors = "none"
      /\ fetcher' = IF VanishesIn(this, e) THEN Fresh ELSE idle
      /\ panel' \in {"open", "closed", "gone"} /\ (panel' = "closed" => this.panel # "inline")
      /\ box' \in [value : Values, dirty : BOOLEAN]
  <2> HIDE DEF e
  <2> QED
    BY <1>1, <1>2, EffectsDo DEF PanelTyped
<1>4. /\ fetcher.state = "loading"
      /\ typed' = IF \/ typed = fetcher.sent \/ RestoresIn(this, field, e)
                     \/ "close" \in e /\ this.panel # "inline"
                  THEN Nothing ELSE typed
      /\ UNCHANGED <<name, field, this, server, shown, request, discarding, dismissed, tries,
                     others, saved>>
  BY <1>1 DEF Settle, Restores, Vanishes, Closes, Unmounts, RestoresIn, VanishesIn, UnmountsIn,
         setting, data, bounds, this
<1>5. /\ VanishesIn(this, e) <=> this.panel = "row"
      /\ this.panel = "row" => RestoresIn(this, field, e)
      /\ "leave" \in e => this.discards = "no" /\ this.panel # "row"
      /\ Plain(this) => e = {}
  BY <1>1 DEF FormOK, VanishesIn, RestoresIn, Plain
<1>6. \/ RestoresIn(this, field, e) \/ "leave" \in e \/ field = "none"
      \/ field # "free" /\ setting \in Exempt
      \/ field = "free" /\ name \in KeepText \ LoseDraft /\ (Plain(this) \/ setting \in Exempt)
  BY <1>1 DEF FieldOK, setting
<1>7. /\ idle.state = "idle" /\ idle.answer = "saved" /\ idle.sent = fetcher.sent
      /\ idle \in [state : {"idle", "submitting", "loading"},
                  answer : {"none", "errors", "saved"}, sent : Values \cup {Nothing}]
  BY <1>1 DEF PanelTyped
<1> HIDE DEF e, idle
<1>8. PanelTyped'
  BY <1>1, <1>3, <1>4, <1>5, <1>6, <1>7 DEF PanelTyped, Fresh
<1>9. RequestOK'
  BY <1>1, <1>3, <1>4, <1>5, <1>6, <1>7 DEF RequestOK, Pending, NoRequest, Fresh
<1>10. DataOK'
  BY <1>1, <1>3, <1>4, <1>5, <1>6, <1>7 DEF DataOK, Plain
<1>11. DraftOK'
  BY <1>1, <1>3, <1>4, <1>5, <1>6, <1>7 DEF DraftOK, DataOK, Current, Nothing
<1>12. FreeOK'
  BY <1>1, <1>3, <1>4, <1>5, <1>6, <1>7 DEF FreeOK
<1>13. CopyOK'
  BY <1>1, <1>3, <1>4, <1>5, <1>6, <1>7 DEF CopyOK, Pending, Current, RequestOK, DataOK,
         DraftOK, Fresh, setting
<1>14. ErrorsOK'
  BY <1>1, <1>3, <1>4, <1>5, <1>6, <1>7 DEF ErrorsOK, Pending
<1>15. CreatedOK'
  BY <1>1, <1>3, <1>4, <1>5, <1>6, <1>7 DEF CreatedOK, Pending, PanelTyped, FormOK
<1> QED
  BY <1>8, <1>9, <1>10, <1>11, <1>12, <1>13, <1>14, <1>15 DEF PanelIInv

LEMMA RefusedKeeps == ASSUME PanelIInv, Settle, fetcher.answer # "saved" PROVE PanelIInv'
<1>1. /\ PanelTyped /\ RequestOK /\ DataOK /\ DraftOK /\ FreeOK /\ CopyOK /\ ErrorsOK /\ CreatedOK
      /\ FormOK(name, this) /\ FieldOK(name, this, field)
      /\ field \in {"free", "copy", "kept", "none"}
      /\ Current(server) \in Values /\ Current(shown) \in Values
  BY FormFacts DEF PanelIInv
<1>2. /\ fetcher.state = "loading" /\ fetcher' = [fetcher EXCEPT !.state = "idle"]
      /\ errors' \in BOOLEAN /\ (errors' => errors \/ this.errors = "effect")
      /\ UNCHANGED <<name, field, this, server, shown, box, panel, request, discarding, typed,
                     dismissed, tries, others, saved>>
  BY <1>1 DEF Settle, PanelTyped, setting, data, bounds, this
<1>3. PanelTyped'
  BY <1>1, <1>2 DEF PanelTyped
<1>4. RequestOK'
  BY <1>1, <1>2 DEF RequestOK, Pending, NoRequest
<1>5. DataOK'
  BY <1>1, <1>2 DEF DataOK, RequestOK, Current, Nothing
<1>6. DraftOK'
  BY <1>1, <1>2 DEF DraftOK
<1>7. FreeOK'
  BY <1>1, <1>2 DEF FreeOK
<1>8. CopyOK'
  BY <1>1, <1>2 DEF CopyOK, Landing, Pending, setting
<1>9. ErrorsOK'
  BY <1>1, <1>2 DEF ErrorsOK, Pending
<1>10. CreatedOK'
  BY <1>1, <1>2 DEF CreatedOK, Pending
<1> QED
  BY <1>3, <1>4, <1>5, <1>6, <1>7, <1>8, <1>9, <1>10 DEF PanelIInv

LEMMA SettleKeeps == ASSUME PanelIInv, Settle PROVE PanelIInv'
BY AcceptedKeeps, RefusedKeeps

LEMMA ForgetKeeps == ASSUME PanelIInv, Forget PROVE PanelIInv'
<1>1. /\ PanelTyped /\ RequestOK /\ DataOK /\ DraftOK /\ FreeOK /\ CopyOK /\ ErrorsOK /\ CreatedOK
      /\ FormOK(name, this) /\ FieldOK(name, this, field)
      /\ field \in {"free", "copy", "kept", "none"}
      /\ Current(server) \in Values /\ Current(shown) \in Values
  BY FormFacts DEF PanelIInv
<1>2. /\ request.done # "no" /\ fetcher.state # "submitting"
      /\ request' = NoRequest /\ shown' = server
      /\ UNCHANGED <<name, field, this, server, box, panel, fetcher, discarding, errors, typed,
                     dismissed, tries, others, saved>>
  BY <1>1 DEF Forget, setting, input, data, io, bounds, this
<1>3. PanelTyped'
  BY <1>1, <1>2 DEF PanelTyped, NoRequest
<1>4. RequestOK'
  BY <1>1, <1>2 DEF RequestOK, Pending, NoRequest
<1>5. DataOK'
  BY <1>1, <1>2 DEF DataOK, RequestOK, Current, NoRequest
<1>6. DraftOK'
  BY <1>1, <1>2 DEF DraftOK
<1>7. FreeOK'
  BY <1>1, <1>2 DEF FreeOK
<1>8. CopyOK'
  BY <1>1, <1>2 DEF CopyOK, FreeOK, FormOK, FieldOK, RequestOK, NoRequest, Plain
<1>9. ErrorsOK'
  BY <1>1, <1>2 DEF ErrorsOK, Pending
<1>10. CreatedOK'
  BY <1>1, <1>2 DEF CreatedOK, FormOK, RequestOK, NoRequest
<1> QED
  BY <1>3, <1>4, <1>5, <1>6, <1>7, <1>8, <1>9, <1>10 DEF PanelIInv

\* The pending change of an item is discarded.
LEMMA DiscardedKeeps == ASSUME PanelIInv, Discarded PROVE PanelIInv'
<1> DEFINE e == this.onDiscard
<1>1. /\ PanelTyped /\ RequestOK /\ DataOK /\ DraftOK /\ FreeOK /\ CopyOK /\ ErrorsOK /\ CreatedOK
      /\ FormOK(name, this) /\ FieldOK(name, this, field)
      /\ field \in {"free", "copy", "kept", "none"}
      /\ Current(server) \in Values /\ Current(shown) \in Values
  BY FormFacts DEF PanelIInv
<1>2. Effects(e, server', fetcher) /\ server' \in Datum
  BY <1>1 DEF Discarded, WithoutChange, Datum, PanelTyped
<1>3. /\ panel' = IF "leave" \in e THEN "gone"
                  ELSE IF "close" \in e /\ this.panel # "inline" THEN "closed" ELSE panel
      /\ box' = IF RestoresIn(this, field, e) THEN [value |-> Current(server'), dirty |-> FALSE]
                ELSE box
      /\ errors' \in BOOLEAN /\ (errors' => errors) /\ (VanishesIn(this, e) => ~errors')
      /\ ClearsIn(this, e) => ~errors' \/ this.errors = "none"
      /\ fetcher' = IF VanishesIn(this, e) THEN Fresh ELSE fetcher
      /\ panel' \in {"open", "closed", "gone"} /\ (panel' = "closed" => this.panel # "inline")
      /\ box' \in [value : Values, dirty : BOOLEAN]
  <2> HIDE DEF e
  <2> QED
    BY <1>1, <1>2, EffectsDo DEF PanelTyped
<1>4. /\ discarding /\ discarding' = FALSE
      /\ server' = [server EXCEPT !.change = Nothing] /\ shown' = server'
      /\ typed' = IF "close" \in e /\ this.panel # "inline" THEN Nothing ELSE typed
      /\ UNCHANGED <<name, field, this, request, dismissed, tries, others, saved>>
  BY <1>1 DEF Discarded, WithoutChange, Closes, setting, data, bounds, this
<1>5. /\ "leave" \notin e /\ (VanishesIn(this, e) => this.panel = "row")
      /\ e # {} => "close" \in e /\ this.panel # "inline"
      /\ e = {} => ~RestoresIn(this, field, e) /\ ~VanishesIn(this, e)
  BY <1>1 DEF FormOK, VanishesIn, RestoresIn, UnmountsIn
<1>6. /\ e # {} => RestoresIn(this, field, e) \/ (setting \in Exempt /\ field # "free")
      /\ field = "free" \/ setting \in Exempt
      /\ ~Plain(this) /\ ~this.creates /\ field # "none" /\ name \notin KeepText
  BY <1>1, <1>4 DEF FieldOK, FormOK, setting, Plain, RequestOK
<1> HIDE DEF e
<1>7. PanelTyped'
  BY <1>1, <1>2, <1>3, <1>4, <1>5, <1>6 DEF PanelTyped, Fresh
<1>8. RequestOK'
  BY <1>1, <1>2, <1>3, <1>4, <1>5, <1>6 DEF RequestOK, Fresh
<1>9. DataOK'
  BY <1>1, <1>2, <1>3, <1>4, <1>5, <1>6 DEF DataOK, RequestOK, Current, Nothing
<1>10. DraftOK'
  BY <1>1, <1>2, <1>3, <1>4, <1>5, <1>6 DEF DraftOK
<1>11. FreeOK'
  BY <1>1, <1>2, <1>3, <1>4, <1>5, <1>6 DEF FreeOK
<1>12. CopyOK'
  BY <1>1, <1>2, <1>3, <1>4, <1>5, <1>6 DEF CopyOK, DraftOK, FreeOK, setting
<1>13. ErrorsOK'
  BY <1>1, <1>2, <1>3, <1>4, <1>5, <1>6 DEF ErrorsOK, Pending, PanelTyped, Fresh
<1>14. CreatedOK'
  BY <1>1, <1>2, <1>3, <1>4, <1>5, <1>6 DEF CreatedOK, Pending
<1> QED
  BY <1>7, <1>8, <1>9, <1>10, <1>11, <1>12, <1>13, <1>14 DEF PanelIInv

LEMMA PanelInit == FormInit => PanelIInv
<1> SUFFICES ASSUME FormInit PROVE PanelIInv
  OBVIOUS
<1>1. PanelTyped
  BY DEF FormInit, PanelTyped, Datum, Values, Drafts, Nothing, Fresh, NoRequest
<1>2. RequestOK /\ FreeOK /\ ErrorsOK /\ CreatedOK
  BY DEF FormInit, RequestOK, FreeOK, ErrorsOK, CreatedOK, Fresh, NoRequest, Pending
<1>3. DataOK /\ DraftOK /\ CopyOK
  BY DEF FormInit, DataOK, DraftOK, CopyOK, Current, Fresh, NoRequest, Pending
<1> QED
  BY <1>1, <1>2, <1>3 DEF PanelIInv

LEMMA PanelStep == PanelIInv /\ [FormNext]_formVars => PanelIInv'
<1> SUFFICES ASSUME PanelIInv, [FormNext]_formVars PROVE PanelIInv'
  OBVIOUS
<1>1. CASE FormNext
  BY <1>1, OpenKeeps, TypeKeeps, SubmitKeeps, DiscardHereKeeps, DiscardBesideKeeps, CancelKeeps,
     CloseKeeps, SaveKeeps, RejectKeeps, OtherUserKeeps, RequeryKeeps, ReturnKeeps, SettleKeeps,
     ForgetKeeps, DiscardedKeeps
  DEF FormNext
<1>2. CASE UNCHANGED formVars
  BY <1>2
  DEF formVars, setting, input, data, io, bounds, PanelIInv, PanelTyped, RequestOK, DataOK,
      DraftOK, FreeOK, CopyOK, ErrorsOK, CreatedOK, this, Pending, Landing
<1> QED
  BY <1>1, <1>2

\* What a form created is not in flight again: the field is empty, or its success is.
LEMMA CreatesOnce == ASSUME PanelIInv PROVE NoSecondCreation
<1> SUFFICES ASSUME request.kind = "save", request.done = "no", saved PROVE FALSE
  BY DEF NoSecondCreation, PanelIInv, PanelTyped
<1>1. PanelTyped /\ RequestOK /\ CreatedOK /\ FormOK(name, this)
  BY FormFacts DEF PanelIInv
<1>2. request # NoRequest /\ panel # "gone"
  BY <1>1 DEF RequestOK, NoRequest
<1>3. this.creates /\ this.panel # "row"
  BY <1>1 DEF CreatedOK, FormOK
<1>4. fetcher.state = "submitting"
  BY <1>1, <1>2, <1>3 DEF RequestOK
<1> QED
  BY <1>1, <1>2, <1>4 DEF CreatedOK, Pending

\* Whatever the user types, saves, cancels, closes and discards in any form of the
\* application, any number of times, while another user writes the same data once: what
\* he typed stays in the field until he gives it up or it is saved, errors that he left
\* are not shown again, a field at rest shows the data, and what a form created is not
\* sent a second time, but for the forms that the properties name.
THEOREM PanelCorrect == FormSpec => []PanelInv
<1>1. PanelIInv => PanelInv
  <2> SUFFICES ASSUME PanelIInv PROVE PanelInv
    OBVIOUS
  <2>1. PanelTyped /\ DraftOK /\ FreeOK /\ CopyOK /\ ErrorsOK
    BY DEF PanelIInv
  <2>2. FormTypeOK
    BY <2>1 DEF PanelTyped, FormTypeOK, Datum
  <2>3. DraftKept
    BY <2>1 DEF DraftKept, DraftOK, Shown
  <2>4. ErrorsLeft
    BY <2>1 DEF ErrorsLeft, ErrorsOK
  <2>5. ShowsSaved
    BY <2>1 DEF ShowsSaved, CopyOK, Landing, AtRest, Pending, Shown, Exempt
  <2>6. FollowsData
    BY <2>1 DEF FollowsData, FreeOK, AtRest, Shown
  <2> QED
    BY <2>2, <2>3, <2>4, <2>5, <2>6, CreatesOnce DEF PanelInv
<1> QED
  BY <1>1, PanelInit, PanelStep, PTL DEF FormSpec

=============================================================================
