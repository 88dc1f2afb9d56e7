-------------------------------- MODULE Alerts --------------------------------
(***************************************************************************)
(* Alerts and the end of the process (zk-api/src/tracing/slack.rs and      *)
(* main.rs).  Logging an alert starts a task that posts it to Slack and    *)
(* puts the task's handle into a list, pruned when it grows; when `run`    *)
(* has failed, main logs the error and waits for the tasks of the list     *)
(* before the process ends, and with it whatever is still being posted.    *)
(* Neither the client that posts nor the wait has a timeout: a post may    *)
(* never end.                                                              *)
(*                                                                         *)
(* A kill from outside loses what is being posted and is left out.  An     *)
(* alert is an event on_event lets through; each is logged once.           *)
(***************************************************************************)
EXTENDS Naturals, FiniteSets

CONSTANTS
    MainAlerts,    \* alerts of the main thread's future, before run fails
    OtherAlerts,   \* alerts of handlers and generation tasks
    LastError,     \* "Error running proof service"
    Threshold      \* SLACK_PRUNE_THRESHOLD

Alerts == MainAlerts \cup OtherAlerts \cup {LastError}

ASSUME AlertsAssumption ==
    /\ Threshold \in Nat \ {0}
    /\ LastError \notin MainAlerts \cup OtherAlerts

VARIABLES
    main,     \* where `main` is
    post,     \* the task that posts an alert
    logging,  \* the alerts whose task exists, but whose handle is not in the list
    handles,  \* SLACK_TASK_HANDLES
    flushed,  \* the handles flush has drained and not yet awaited
    inTime    \* history: the alerts whose handle was in the list before flush

vars == <<main, post, logging, handles, flushed, inTime>>

MainPC == {"starting", "running", "failed", "reporting", "flushing", "exited", "aborted"}

(* A handle is at one place at most.                                       *)
OnePlace ==
    /\ logging \cap handles = {}
    /\ logging \cap flushed = {}
    /\ handles \cap flushed = {}

TypeOK ==
    /\ main \in MainPC
    /\ post \in [Alerts -> {"none", "posting", "done"}]
    /\ {logging, handles, flushed, inTime} \subseteq SUBSET Alerts
    /\ OnePlace

Init ==
    /\ main = "starting"
    /\ post = [a \in Alerts |-> "none"]
    /\ logging = {} /\ handles = {} /\ flushed = {} /\ inTime = {}

Alive == main \notin {"exited", "aborted"}

Posting == {a \in Alerts : post[a] = "posting"}
Done    == {a \in Alerts : post[a] = "done"}

-----------------------------------------------------------------------------
(* on_event: the task is spawned, then the handle pushed.                  *)

(* Mutant: the list is emptied instead of pruned.                          *)
PruneAll(hs) == IF Cardinality(hs) >= Threshold THEN {} ELSE hs

Prune(hs) == IF Cardinality(hs) >= Threshold THEN hs \ Done ELSE hs

SpawnPost(a) ==
    /\ post[a] = "none"
    /\ post' = [post EXCEPT ![a] = "posting"]
    /\ logging' = logging \cup {a}

(* main's own future logs while it starts and runs, the others once the    *)
(* API server is up, to the end of the process.                            *)
Log(a) ==
    /\ \/ a \in MainAlerts /\ main \in {"starting", "running"}
       \/ a \in OtherAlerts /\ main # "starting" /\ Alive
    /\ SpawnPost(a)
    /\ UNCHANGED <<main, handles, flushed, inTime>>

Push(a) ==
    /\ a \in logging
    /\ Alive
    /\ logging' = logging \ {a}
    /\ handles' = Prune(handles \cup {a})
    /\ inTime' = IF main = "flushing" THEN inTime ELSE inTime \cup {a}
    /\ UNCHANGED <<main, post, flushed>>

(* Slack answers, with whatever status, or the request fails; nothing in   *)
(* the code makes either happen.                                           *)
Finish(a) ==
    /\ post[a] = "posting"
    /\ Alive
    /\ post' = [post EXCEPT ![a] = "done"]
    /\ UNCHANGED <<main, logging, handles, flushed, inTime>>

-----------------------------------------------------------------------------
(* main                                                                    *)

GoTo(pc) == main' = pc

(* The future of main is in none of its own on_event calls.                *)
MainFree == logging \cap (MainAlerts \cup {LastError}) = {}

(* The service is set up and the API server started; an error in between   *)
(* ends the process at once.                                               *)
StartService ==
    /\ main = "starting" /\ MainFree
    /\ GoTo("running") \/ GoTo("aborted")
    /\ UNCHANGED <<post, logging, handles, flushed, inTime>>

(* run returns, which it does with an error only.                          *)
Fail ==
    /\ main = "running" /\ MainFree
    /\ GoTo("failed")
    /\ UNCHANGED <<post, logging, handles, flushed, inTime>>

Report ==
    /\ main = "failed"
    /\ SpawnPost(LastError)
    /\ GoTo("reporting")
    /\ UNCHANGED <<handles, flushed, inTime>>

(* Mutant: the handles are awaited in the list.                            *)
FlushInPlace ==
    /\ main = "reporting" /\ MainFree
    /\ flushed' = handles
    /\ GoTo("flushing")
    /\ UNCHANGED <<post, logging, handles, inTime>>

(* flush: the list is drained under its mutex.                             *)
Flush ==
    /\ main = "reporting" /\ MainFree
    /\ handles' = {} /\ flushed' = handles
    /\ GoTo("flushing")
    /\ UNCHANGED <<post, logging, inTime>>

(* Mutant: flush goes on when the first task has finished.                 *)
AwaitAny(a) ==
    /\ main = "flushing"
    /\ a \in flushed \cap Done
    /\ flushed' = {}
    /\ UNCHANGED <<main, post, logging, handles, inTime>>

(* The handles are awaited without a timeout, whatever became of the task. *)
Await(a) ==
    /\ main = "flushing"
    /\ a \in flushed \cap Done
    /\ flushed' = flushed \ {a}
    /\ UNCHANGED <<main, post, logging, handles, inTime>>

(* Mutant: flush waits until the list is empty.                            *)
ExitWhenEmpty ==
    /\ main = "flushing" /\ flushed = {} /\ handles = {}
    /\ GoTo("exited")
    /\ UNCHANGED <<post, logging, handles, flushed, inTime>>

Exit ==
    /\ main = "flushing" /\ flushed = {}
    /\ GoTo("exited")
    /\ UNCHANGED <<post, logging, handles, flushed, inTime>>

Main == StartService \/ Fail \/ Report \/ Flush \/ (\E a \in Alerts : Await(a)) \/ Exit

Next == Main \/ \E a \in Alerts : Log(a) \/ Push(a) \/ Finish(a)

Spec == Init /\ [][Next]_vars

(* The future of main and the threads that log are scheduled; run need not *)
(* fail, and no post need end.                                             *)
Fairness ==
    /\ WF_vars(Main /\ ~Fail)
    /\ \A a \in Alerts : WF_vars(Push(a))

FairSpec == Spec /\ Fairness

-----------------------------------------------------------------------------
(* No alert in flight is lost from sight: its handle is about to be put    *)
(* into the list, in the list, or being waited for, however logging in     *)
(* other threads, pruning and the flush overlap.                           *)
InSight == Posting \subseteq logging \cup handles \cup flushed

(* A process that ends because run has failed has posted the error it      *)
(* ends with, and every alert whose handle was in the list before flush    *)
(* drained it, pruned or not.                                              *)
LastWords == main = "exited" => LastError \in inTime /\ inTime \subseteq Done

(* Once run has failed, the process ends or waits for ever for a post that *)
(* was in the list when flush drained it: neither what other threads go on *)
(* logging, nor its posts, nor a handle pushed late can keep it up.  While *)
(* it is up its API answers, but it releases no request any more.          *)
OnlyDrainedPostsHold ==
    main = "failed" ~> \/ main = "exited"
                       \/ [](main = "flushing" /\ flushed \cap Posting # {})

(* The inductive strengthening of InSight and LastWords: at each point of  *)
(* main, where the alerts due before its end are.                          *)
AlertsInv ==
    /\ InSight
    /\ logging \cup handles \cup flushed \subseteq Posting \cup Done
    /\ main # "flushing" => flushed = {}
    /\ Alive => inTime \subseteq Done \cup (IF main = "flushing" THEN flushed ELSE handles)
    /\ main \in {"starting", "running", "failed"} => post[LastError] = "none"
    /\ main = "reporting" => LastError \in logging \cup inTime
    /\ main = "flushing" => LastError \in inTime
    /\ LastWords
=============================================================================
