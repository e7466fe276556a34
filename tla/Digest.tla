-------------------------------- MODULE Digest --------------------------------
(***************************************************************************)
(* The digest mails: the scheduler with its runs and their workers         *)
(* (src/internal/digest/scheduler.go), what a user is sent                 *)
(* (src/internal/digest/collector.go, src/internal/email/sender.go), and   *)
(* the end of the process it lives in (src/cmd/api/main.go).  The accounts *)
(* change while a run is under way: it works on the rows it has read.      *)
(*                                                                         *)
(* A day has one minute in which each period's run may start.  No run goes *)
(* on into the next: the time limit of 30 minutes is assumed to end the    *)
(* calls it makes, which for SMTP nothing ensures.  The texts of the mails *)
(* and the analyses they quote are left out.                               *)
(***************************************************************************)
EXTENDS Accounts

CONSTANTS Periods,      \* "daily", "weekly"
          Every,        \* the days between two runs, by period
          MaxSends,     \* MaxConcurrentSends
          MaxRestarts   \* bound on the restarts

ASSUME DigestAssumption ==
    /\ Periods \subseteq Frequencies
    /\ Every \in [Periods -> Nat \ {0}]
    /\ {MaxSends, MaxRestarts} \subseteq Nat

VARIABLES
    dueIn,      \* the days to each period's next run
    due,        \* it is the minute in which they start
    process,    \* main: "up", "draining", "stopping", "closing", "down"
    loop,       \* the scheduler's loop goes on
    wg,         \* the count of the scheduler's WaitGroup
    sinceRun,   \* days since lastDailyRun and lastWeeklyRun, at most Every
    runs,       \* where each period's run is
    todo,       \* accounts, as read, that wait for a worker
    inHand,     \* those the workers have, and where they are with them
    restarts,   \* of the process
    mails,      \* history: mails of today, by period and account,
    boots       \* and how often the process started in the minute of the runs

schedulerVars == <<loop, wg>>
digestVars == <<dueIn, due, process, schedulerVars, sinceRun, runs, todo, inHand, restarts, mails,
                boots>>

NoMails == [p \in Periods |-> [id \in Ids |-> 0]]
Running == {p \in Periods : runs[p] # "off"}

DigestInit ==
    /\ AccountsInit
    /\ dueIn = [p \in Periods |-> 0]
    /\ due = FALSE
    /\ process = "up"
    /\ loop = TRUE /\ wg = 1
    /\ sinceRun = Every
    /\ runs = [p \in Periods |-> "off"]
    /\ todo = [p \in Periods |-> {}]
    /\ inHand = {}
    /\ restarts = 0
    /\ mails = NoMails
    /\ boots = 0

-----------------------------------------------------------------------------
(* loop, runDigest and processUser *)

RunGoes(p, next) == runs' = [runs EXCEPT ![p] = next]

\* wg.Done, when a goroutine of the scheduler returns.
Leaves == wg' = wg - 1

\* Mutant: a run that has started is not noted.
UnnotedDue(p) ==
    /\ sinceRun[p] >= Every[p]
    /\ UNCHANGED sinceRun

\* More than 23 hours, or six days, since the last one.
NotedDue(p) ==
    /\ sinceRun[p] >= Every[p]
    /\ sinceRun' = [sinceRun EXCEPT ![p] = 0]

\* Mutant: the wait group is not told of a run.
StartsUncounted == UNCHANGED wg

\* wg.Add, before the goroutine of a run is started.
StartsCounted == wg' = wg + 1

\* A tick of the ticker in the right minute: there may be two, or none.  While
\* both are ready the select may take the tick though stopCh is closed.
RunStarts(p) ==
    /\ loop
    /\ due /\ dueIn[p] = 0
    /\ runs[p] = "off"
    /\ NotedDue(p)
    /\ StartsCounted
    /\ RunGoes(p, "listing")
    /\ UNCHANGED <<accountVars, dueIn, due, process, loop, todo, inHand, restarts, mails, boots, faults>>

\* The select takes stopCh, which Stop has closed.
LoopEnds ==
    /\ loop /\ process = "stopping"
    /\ loop' = FALSE
    /\ Leaves
    /\ UNCHANGED <<accountVars, dueIn, due, process, sinceRun, runs, todo, inHand, restarts, mails,
                   boots, faults>>

\* CollectGlobal, where a read that fails leaves a gap, then GetUsersForDigest.
Eligible(p) == {a \in accounts : a.verified /\ a.freq \in {p, "both"}}

UsersListed(p) ==
    /\ runs[p] = "listing"
    /\ \/ /\ StatementWorks
          /\ todo' = [todo EXCEPT ![p] = {a.id : a \in Eligible(p)}]
          /\ RunGoes(p, "sending")
          /\ UNCHANGED wg
       \/ StatementFails /\ RunGoes(p, "off") /\ Leaves /\ UNCHANGED todo
    /\ UNCHANGED <<accountVars, dueIn, due, process, loop, sinceRun, inHand, restarts, mails, boots>>

InHand(p) == {h \in inHand : h.period = p}
Hand(p, id, step) == [period |-> p, id |-> id, step |-> step]

\* A worker takes a user; ShouldSendToUser and RenderDigestEmail may end it.
UserTaken(p, id) ==
    /\ runs[p] = "sending"
    /\ id \in todo[p]
    /\ Cardinality(InHand(p)) < MaxSends
    /\ todo' = [todo EXCEPT ![p] = @ \ {id}]
    /\ inHand' \in {inHand, inHand \cup {Hand(p, id, "sending")}}
    /\ UNCHANGED <<accountVars, dueIn, due, process, schedulerVars, sinceRun, runs, restarts, mails,
                   boots, faults>>

\* Send: done or not when it fails; with the run's context ended it may fail.
MailSent(h) ==
    LET left == mails' = [mails EXCEPT ![h.period][h.id] = @ + 1]
        rest == inHand \ {h}
    IN  /\ h \in inHand /\ h.step = "sending"
        /\ \/ Works /\ left /\ inHand' = rest \cup {Hand(h.period, h.id, "marking")}
           \/ Fails /\ inHand' = rest /\ (left \/ UNCHANGED mails)
           \/ Works /\ process = "stopping" /\ inHand' = rest /\ UNCHANGED mails
        /\ UNCHANGED <<accountVars, dueIn, due, process, schedulerVars, sinceRun, runs, todo, restarts,
                       boots>>

\* MarkDigestSent: nobody reads the date, and its failure is logged.
SendingMarked(h) ==
    /\ h \in inHand /\ h.step = "marking"
    /\ StatementWorks \/ StatementFails
    /\ inHand' = inHand \ {h}
    /\ UNCHANGED <<accountVars, dueIn, due, process, schedulerVars, sinceRun, runs, todo, restarts,
                   mails, boots>>

RunEnds(p) ==
    /\ runs[p] = "sending"
    /\ todo[p] = {} /\ InHand(p) = {}
    /\ RunGoes(p, "off")
    /\ Leaves
    /\ UNCHANGED <<accountVars, dueIn, due, process, loop, sinceRun, todo, inHand, restarts, mails,
                   boots, faults>>

-----------------------------------------------------------------------------
(* main *)

\* SIGTERM, and httpServer.Shutdown: no new requests.
ShutdownBegins ==
    /\ process = "up"
    /\ process' = "draining"
    /\ UNCHANGED <<accountVars, dueIn, due, schedulerVars, sinceRun, runs, todo, inHand, restarts, mails,
                   boots, faults>>

\* Stop of the scheduler, when the requests are done or 30 s have passed: it
\* closes stopCh, cancels the runs' contexts and waits.
SchedulerStops ==
    /\ process = "draining"
    /\ process' = "stopping"
    /\ UNCHANGED <<accountVars, dueIn, due, schedulerVars, sinceRun, runs, todo, inHand, restarts, mails,
                   boots, faults>>

\* wg.Wait returns.
SchedulerDone == process = "stopping" /\ wg = 0

\* Redis is closed, then the database.
StoresClose ==
    /\ SchedulerDone
    /\ process' = "closing"
    /\ dbOpen' = FALSE
    /\ UNCHANGED <<accounts, made, registering, whose, newAccount, dueIn, due, schedulerVars,
                   sinceRun, runs, todo, inHand, restarts, mails, boots, faults>>

\* The process ends: after its shutdown, or killed.
ProcessEnds ==
    /\ process # "down"
    /\ restarts < MaxRestarts
    /\ process' = "down"
    /\ dbOpen' = FALSE
    /\ loop' = FALSE /\ wg' = 0
    /\ sinceRun' = Every
    /\ runs' = [p \in Periods |-> "off"]
    /\ todo' = [p \in Periods |-> {}]
    /\ inHand' = {}
    /\ registering' = [r \in Registrations |-> "idle"]
    /\ whose' = [r \in Registrations |-> NoAccount]
    /\ newAccount' = [r \in Registrations |-> NoAccount]
    /\ UNCHANGED <<accounts, made, dueIn, due, restarts, mails, boots, faults>>

ProcessStarts ==
    /\ process = "down"
    /\ process' = "up"
    /\ dbOpen' = TRUE
    /\ loop' = TRUE /\ wg' = 1
    /\ restarts' = restarts + 1
    /\ boots' = IF due THEN boots + 1 ELSE boots
    /\ UNCHANGED <<accounts, made, registering, whose, newAccount, dueIn, due, sinceRun,
                   runs, todo, inHand, mails, faults>>

\* Requests are served while the process is up; those under way go on.
RequestServed ==
    /\ AccountsNext
    /\ process # "down"
    /\ process # "up" => \A r \in Registrations : registering[r] = "idle" => registering'[r] = "idle"
    /\ UNCHANGED digestVars

\* The minute of the runs ends; it comes again the next day.
MinutePasses ==
    /\ due' = ~ due
    /\ IF due THEN UNCHANGED <<dueIn, sinceRun, mails, boots>>
       ELSE /\ Running = {}
            /\ dueIn' = [p \in Periods |-> (IF dueIn[p] = 0 THEN Every[p] ELSE dueIn[p]) - 1]
            /\ sinceRun' = [p \in Periods |-> IF sinceRun[p] < Every[p] THEN sinceRun[p] + 1
                                                                       ELSE Every[p]]
            /\ mails' = NoMails
            /\ boots' = 0
    /\ UNCHANGED <<accountVars, process, schedulerVars, runs, todo, inHand, restarts, faults>>

DigestNext ==
    \/ RequestServed
    \/ \E p \in Periods :
          \/ RunStarts(p) \/ UsersListed(p) \/ RunEnds(p)
          \/ \E id \in todo[p] : UserTaken(p, id)
    \/ \E h \in inHand : MailSent(h) \/ SendingMarked(h)
    \/ LoopEnds
    \/ ShutdownBegins \/ SchedulerStops \/ StoresClose \/ ProcessEnds \/ ProcessStarts
    \/ MinutePasses

DigestSpec ==
    /\ DigestInit /\ faults = MaxFaults
    /\ [][DigestNext]_<<accountVars, digestVars, faults>>

-----------------------------------------------------------------------------

DigestTypeOK ==
    /\ AccountsTypeOK
    /\ DOMAIN dueIn = Periods /\ DOMAIN sinceRun = Periods
    /\ \A p \in Periods : dueIn[p] \in 0..(Every[p] - 1) /\ sinceRun[p] \in 0..Every[p]
    /\ due \in BOOLEAN
    /\ process \in {"up", "draining", "stopping", "closing", "down"}
    /\ loop \in BOOLEAN
    /\ wg \in Nat
    /\ runs \in [Periods -> {"off", "listing", "sending"}]
    /\ todo \in [Periods -> SUBSET Ids]
    /\ inHand \subseteq [period : Periods, id : Ids, step : {"sending", "marking"}]
    /\ restarts \in 0..MaxRestarts
    /\ mails \in [Periods -> [Ids -> Nat]]
    /\ boots \in 0..MaxRestarts

\* An account gets at most one mail of a period in a day, whatever it changes
\* during the run and however often the ticker comes; one more for each start
\* of the process within the minute of the runs, which are only remembered in
\* its memory.
OneMailPerRun == \A p \in Periods, id \in Ids : mails[p][id] <= 1 + boots

\* Once the stores are closed no run is left to use them and none can start,
\* though a tick may start one while Stop waits already: the wait group counts
\* the loop as well, and never reaches zero while a run may come.
RunsEndBeforeStores == process = "closing" => ~ loop /\ Running = {} /\ inHand = {}

=============================================================================
