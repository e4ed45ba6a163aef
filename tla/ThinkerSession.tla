--------------------------- MODULE ThinkerSession ---------------------------
(***************************************************************************)
(* One browser page (vendor/MiroFish/frontend/src/views/Home.vue with      *)
(* utils/thinker.js) that drives the Thinker of ThinkerJobs through its    *)
(* upload and Polymarket tabs: it creates a job, polls it, and lets the    *)
(* user adopt, retry or skip before the inputs go on to the Process page.  *)
(*                                                                         *)
(* The page awaits one request at a time (its loading flag).  A request is *)
(* sent, handled by the gateway in one step, and its reply received in     *)
(* another; either may be lost, and the page cannot tell which was.  What  *)
(* the user types and what a job is about is left out, but for the event.  *)
(***************************************************************************)
EXTENDS ThinkerJobs

CONSTANTS
  Events,    \* the Polymarket events that may be selected
  NoEvent, NoJob,
  MaxPolls   \* bound on the polls of one flow (in the code 180 s of them)

ASSUME NothingAssumption == NoEvent \notin Events /\ NoJob \notin Jobs
ASSUME PollsAssumption == MaxPolls \in Nat

VARIABLES
  tab,       \* activeTab
  event,     \* selectedEvent
  enabled,   \* thinkerEnabled
  session,   \* the other thinker... refs of the page
  call,      \* the request the page awaits
  polls,     \* polls of the present flow
  handed,    \* history: what was handed over to the Process page
  trouble    \* history: the session lost a reply, or the gateway its jobs

pageVars == <<tab, event, enabled, session, call, polls, handed, trouble>>
sessionVars == <<vars, pageVars>>

-----------------------------------------------------------------------------
NoSession ==
  [job |-> NoJob, mode |-> "none", event |-> NoEvent, shown |-> "none",
   actions |-> {}, unreachable |-> FALSE]

NoCall == [op |-> "none", reply |-> "none", job |-> NoJob, status |-> "none"]
Pending(op) == [NoCall EXCEPT !.op = op, !.reply = "pending"]

Loading == call.op # "none"

Terminal == {"succeeded", "failed", "materialized", "skipped"}

(* A Polymarket session cannot be closed, as long as its event is selected *)
(* and the polling has not lost the gateway.                               *)
Locked ==
  /\ session.job # NoJob
  /\ session.mode = "polymarket"
  /\ event # NoEvent
  /\ event = session.event
  /\ ~ session.unreachable

(* normalizeThinkerJobState and applyThinkerJobState.                      *)
Showing(s, status) ==
  [s EXCEPT !.shown = status, !.actions = AvailableActions(status),
            !.unreachable = FALSE]

FreshPage ==
  /\ tab' = "upload" /\ event' = NoEvent /\ enabled' = FALSE
  /\ session' = NoSession /\ call' = NoCall /\ polls' = 0
  /\ trouble' = FALSE

(* The inputs are left in the pending-upload store and the router goes to  *)
(* the Process page; the user comes back to a fresh one.                   *)
HandOver(origin, job) ==
  /\ handed' = handed \union {[origin |-> origin, job |-> job]}
  /\ FreshPage

SessionInit ==
  /\ Init
  /\ tab = "upload" /\ event = NoEvent /\ enabled = FALSE
  /\ session = NoSession /\ call = NoCall /\ polls = 0
  /\ handed = {} /\ trouble = FALSE

-----------------------------------------------------------------------------
(* What the user does.  The tabs work while a request is under way.        *)
SwitchTab ==
  /\ tab' \in {"upload", "polymarket"} \ {tab}
  /\ UNCHANGED <<event, enabled, session, call, polls, handed, trouble>>

(* Faulty variant: the events stay selectable while a job is held.         *)
SelectEventAlways ==
  /\ tab = "polymarket"
  /\ ~ Loading
  /\ event' \in Events
  /\ UNCHANGED <<tab, enabled, session, call, polls, handed, trouble>>
SelectEvent ==
  /\ tab = "polymarket"
  /\ ~ Loading
  /\ ~ (enabled /\ session.job # NoJob)
  /\ event' \in Events
  /\ UNCHANGED <<tab, enabled, session, call, polls, handed, trouble>>

(* The checkbox: switching Thinker off forgets the session, a locked one   *)
(* stays and the box is ticked again.                                      *)
ToggleThinker ==
  /\ ~ Loading
  /\ \/ ~ enabled /\ enabled' = TRUE /\ UNCHANGED session
     \/ enabled /\ ~ Locked /\ enabled' = FALSE /\ session' = NoSession
  /\ UNCHANGED <<tab, event, call, polls, handed, trouble>>

CanSubmit ==
  /\ tab = "polymarket" => event # NoEvent
  /\ enabled => session.job = NoJob

StartDirectly ==
  /\ ~ Loading /\ CanSubmit /\ ~ enabled
  /\ HandOver("direct", NoJob)

(* An id must be left for the job (bound).                                 *)
StartThinker ==
  /\ ~ Loading /\ CanSubmit /\ enabled
  /\ \E j \in Jobs : attempt[j] = 0
  /\ session' = [session EXCEPT !.mode = tab, !.actions = {},
       !.event = IF tab = "polymarket" THEN event ELSE NoEvent,
       !.unreachable = FALSE]
  /\ call' = Pending("create")
  /\ polls' = 0
  /\ UNCHANGED <<tab, event, enabled, handed, trouble>>

(* The buttons of the Thinker panel, on the tab of the job.                *)
Press(op) ==
  /\ ~ Loading /\ enabled /\ session.mode = tab
  /\ call' = Pending(op)
  /\ polls' = 0
  /\ UNCHANGED <<tab, event, enabled, session, handed, trouble>>

AdoptResult == session.shown = "succeeded" /\ Press("adopt")

RetryThinker ==
  /\ session.shown = "failed" /\ "retry" \in session.actions
  /\ session.job # NoJob /\ attempt[session.job] < MaxAttempts  \* bound
  /\ Press("retry")

(* Faulty variant: skip is offered whatever the job's state.               *)
SkipThinkerAnytime == session.job # NoJob /\ Press("skip")
SkipThinker ==
  /\ session.shown \in {"succeeded", "failed"} /\ "skip" \in session.actions
  /\ Press("skip")

(* The page is reloaded; a request under way may still be handled.         *)
Reload == FreshPage /\ UNCHANGED handed

UserStep ==
  /\ \/ SwitchTab \/ SelectEvent \/ ToggleThinker
     \/ StartDirectly \/ StartThinker
     \/ AdoptResult \/ RetryThinker \/ SkipThinker
     \/ Reload
  /\ UNCHANGED vars

-----------------------------------------------------------------------------
(* What the network and the gateway do with the request the page awaits.   *)

Handle(j) ==
  \/ call.op = "create" /\ CreateJob(j, session.mode)
  \/ /\ j = session.job
     /\ \/ call.op \in {"poll", "recover"} /\ jobs[j].status # "unknown"
                                           /\ UNCHANGED vars
        \/ call.op = "adopt" /\ MaterializeJob(j, Fields)
        \/ call.op = "retry" /\ RetryJob(j)
        \/ call.op = "skip" /\ SkipJob(j)

(* The reply carries the job as the handler has left it.                   *)
Answer ==
  /\ call.reply = "pending"
  /\ \E j \in Jobs :
       /\ Handle(j)
       /\ \/ /\ call' = [call EXCEPT !.reply = "answer", !.job = j,
                                     !.status = jobs'[j].status]
             /\ UNCHANGED trouble
          \/ call' = [call EXCEPT !.reply = "lost"] /\ trouble' = TRUE
  /\ UNCHANGED <<tab, event, enabled, session, polls, handed>>

(* 400 or 422 for an upload with a file that cannot be read, or with none  *)
(* that says anything: the page does not look into them.  (It always sends *)
(* a direction and, for an event, an object that is not empty.)            *)
NothingToRead ==
  call.op = "create" /\ session.job = NoJob /\ session.mode = "upload"

(* 404 for a job the gateway does not know, 409 for one whose status does  *)
(* not admit the request.                                                  *)
Refuses(op, status) ==
  \/ op \in {"poll", "recover"} /\ status = "unknown"
  \/ op = "adopt" /\ status # "succeeded"
  \/ op \in {"retry", "skip"} /\ op \notin AvailableActions(status)

Refuse ==
  /\ call.reply = "pending"
  /\ NothingToRead \/ Refuses(call.op, jobs[session.job].status)
  /\ call' = [call EXCEPT !.reply = "refused"]
  /\ UNCHANGED <<vars, tab, event, enabled, session, polls, handed, trouble>>

(* The request is lost before the gateway has seen it.                     *)
LoseRequest ==
  /\ call.reply = "pending"
  /\ call' = [call EXCEPT !.reply = "lost"]
  /\ trouble' = TRUE
  /\ UNCHANGED <<vars, tab, event, enabled, session, polls, handed>>

-----------------------------------------------------------------------------
(* What the page makes of the reply.  An error is a refusal or a loss.     *)

Answered(op) == call.op = op /\ call.reply = "answer"
Failed(op) == call.op = op /\ call.reply \in {"refused", "lost"}

Goes(op) == call' = IF op = "none" THEN NoCall ELSE Pending(op)

(* startThinkerFlow goes on to poll,                                       *)
CreateAnswered ==
  /\ Answered("create")
  /\ session' = [Showing(session, call.status) EXCEPT !.job = call.job]
  /\ Goes("poll") /\ polls' = 0

(* or shows the error.                                                     *)
CreateFailed ==
  /\ Failed("create")
  /\ session' = [session EXCEPT !.shown = "none", !.actions = {}]
  /\ Goes("none") /\ polls' = 0

(* Faulty variant: polling has no timeout.                                 *)
PollAnsweredPatiently ==
  /\ Answered("poll")
  /\ session' = Showing(session, call.status)
  /\ IF call.status \in Terminal THEN Goes("none") /\ polls' = 0
                                 ELSE Goes("poll") /\ UNCHANGED polls
(* pollThinkerJobUntilTerminal: a terminal status ends it; after another   *)
(* one it polls again until the time is up, and then asks a last time.     *)
PollAnswered ==
  /\ Answered("poll")
  /\ session' = Showing(session, call.status)
  /\ \/ call.status \in Terminal /\ Goes("none") /\ polls' = 0
     \/ call.status \notin Terminal /\ polls < MaxPolls /\ Goes("poll")
                                    /\ polls' = polls + 1
     \/ call.status \notin Terminal /\ Goes("recover") /\ polls' = 0

PollFailed ==
  /\ Failed("poll")
  /\ Goes("recover") /\ polls' = 0
  /\ UNCHANGED session

(* resolveThinkerPollErrorState: the job as it is, terminal or not; or the *)
(* gateway is taken to be out of reach, which unlocks the session.         *)
RecoverAnswered ==
  /\ Answered("recover")
  /\ session' = Showing(session, call.status)
  /\ Goes("none") /\ UNCHANGED polls

RecoverFailed ==
  /\ Failed("recover")
  /\ session' = [session EXCEPT !.unreachable = TRUE, !.actions = {}]
  /\ Goes("none") /\ UNCHANGED polls

(* Faulty variant: the reply to a retry is not shown, nor polled for.      *)
RetryAnsweredUnseen ==
  /\ Answered("retry")
  /\ Goes("none") /\ UNCHANGED <<session, polls>>
RetryAnswered ==
  /\ Answered("retry")
  /\ session' = Showing(session, call.status)
  /\ Goes("poll") /\ UNCHANGED polls

(* The page shows the error and what it showed before.                     *)
PressFailed ==
  /\ Failed("adopt") \/ Failed("retry") \/ Failed("skip")
  /\ Goes("none") /\ UNCHANGED <<session, polls>>

AdoptAnswered == Answered("adopt") /\ HandOver("thinker", session.job)

(* Faulty variant: the original inputs go on whatever the gateway says.    *)
SkipEnded ==
  /\ Answered("skip") \/ Failed("skip")
  /\ HandOver("original", session.job)
SkipAnswered == Answered("skip") /\ HandOver("original", session.job)

Receive ==
  /\ \/ /\ \/ CreateAnswered \/ CreateFailed
           \/ PollAnswered \/ PollFailed
           \/ RecoverAnswered \/ RecoverFailed
           \/ RetryAnswered \/ PressFailed
        /\ UNCHANGED <<tab, event, enabled, handed, trouble>>
     \/ AdoptAnswered
     \/ SkipAnswered
  /\ UNCHANGED vars

-----------------------------------------------------------------------------
CallStep == Answer \/ Refuse \/ LoseRequest \/ Receive

RunStep == (\E t \in tasks : TaskStep(t)) /\ UNCHANGED pageVars

GatewayRestart ==
  /\ Restart
  /\ trouble' = TRUE
  /\ UNCHANGED <<tab, event, enabled, session, call, polls, handed>>

SessionNext == UserStep \/ CallStep \/ RunStep \/ GatewayRestart

SessionSpec == SessionInit /\ [][SessionNext]_sessionVars

(* A request ends: Axios gives up after 300 s.  Nothing is assumed of the  *)
(* gateway's tasks, nor of the user.                                       *)
SessionFairSpec == SessionSpec /\ WF_sessionVars(CallStep)

-----------------------------------------------------------------------------
Shown == Statuses \union {"none"}

Sessions ==
  [job : Jobs \union {NoJob}, mode : {"none", "upload", "polymarket"},
   event : Events \union {NoEvent}, shown : Shown,
   actions : SUBSET {"retry", "skip"}, unreachable : BOOLEAN]

Ops == {"none", "create", "poll", "recover", "adopt", "retry", "skip"}

Calls ==
  [op : Ops, reply : {"none", "pending", "answer", "refused", "lost"},
   job : Jobs \union {NoJob}, status : Shown]

Handover ==
  [origin : {"direct", "thinker", "original"}, job : Jobs \union {NoJob}]

(* Type correctness; every request but the first names the session's job.  *)
SessionTypeOK ==
  /\ tab \in {"upload", "polymarket"}
  /\ event \in Events \union {NoEvent}
  /\ enabled \in BOOLEAN
  /\ session \in Sessions
  /\ call \in Calls
  /\ polls \in 0..MaxPolls
  /\ handed \subseteq Handover
  /\ trouble \in BOOLEAN
  /\ call.op \notin {"none", "create"} => session.job # NoJob

(* What went on to the simulation agrees with the gateway: a payload that  *)
(* the gateway has materialized, or the original inputs of a job that it   *)
(* has skipped and that will never have a payload.  The original inputs    *)
(* are never used silently because something failed.                       *)
HandedIsDecided ==
  \A h \in handed : h.job # NoJob =>
    /\ jobs[h.job].status \in
         {"unknown", IF h.origin = "thinker" THEN "materialized" ELSE "skipped"}
    /\ (h.origin = "thinker") <=> \E p \in payloads : p.job = h.job

(* What the page shows once it is at rest is the job's status, or that of  *)
(* a job it has stopped polling; after trouble, it may still be a status   *)
(* that the job has left since.                                            *)
ShownIsCurrent ==
  ~ Loading /\ session.job # NoJob =>
    LET status == jobs[session.job].status
    IN  \/ session.shown = status
        \/ session.shown \in {"created", "running"}
        \/ trouble /\ session.shown = "failed" /\ status # "materialized"
        \/ trouble /\ session.shown = "succeeded"
                   /\ status \in {"materialized", "skipped", "unknown"}

(* Nothing the page offers for a job is refused, unless a reply or the     *)
(* gateway's memory was lost: two rules for the same thing, those of       *)
(* thinker_available_actions with the handlers and those of the buttons,   *)
(* agree.  Start is refused only for what is uploaded, with no job held.   *)
OfferedIsAccepted == call.reply = "refused" => trouble \/ NothingToRead

(* The event a Polymarket job is about stays the selected one: an adopted  *)
(* result, the fallback document and the lock are all of the same event.   *)
EventOfSession ==
  session.job # NoJob /\ session.mode = "polymarket" =>
    event # NoEvent /\ event = session.event

(* The page does not stay busy: polling gives up, a job that runs for ever *)
(* notwithstanding.                                                        *)
FlowEnds == Loading ~> ~ Loading

=============================================================================
