------------------------------ MODULE TaskWork ------------------------------
(***************************************************************************)
(* Callbacks run by a task on its way to user mode or out of existence:    *)
(* kernel/task_work.c, for one target task.                                *)
(*                                                                         *)
(* ->task_works heads a singly linked list.  Anybody adds at the front     *)
(* with cmpxchg(); task_work_cancel() unlinks anywhere under ->pi_lock;    *)
(* the task takes the whole list and, having waited for ->pi_lock to be    *)
(* free, treats it as its own.  An action reads or writes shared memory    *)
(* once.                                                                   *)
(***************************************************************************)
EXTENDS Naturals, FiniteSets, SequencesExt

CONSTANTS Works, NULL,
          Exited,        \* &work_exited
          Head0,         \* the location &task->task_works
          Funcs, func,   \* the callbacks, the one of each work
          Notified,      \* works added with notify set
          Callers        \* contexts that add and cancel

ASSUME TaskWorkAssumption ==
    /\ IsFiniteSet(Works) /\ {NULL, Exited, Head0} \cap Works = {}
    /\ NULL # Exited /\ NULL # Head0 /\ Exited # Head0 /\ NULL \notin Callers
    /\ func \in [Works -> Funcs] /\ Notified \subseteq Works

VARIABLES
    task_works, next,        \* head of the list, work->next
    notify, exiting,         \* TIF_NOTIFY_RESUME, PF_EXITING
    pi_lock,                 \* owner of ->pi_lock, or NULL
    pc, arg,                 \* callers: where, the work they add or look at
    want, pprev, lnext,      \* task_work_cancel(): func, pprev, work->next as read
    run, work, head,         \* task_work_run(): where, its locals
    queued                   \* works added, not yet run or cancelled, oldest first

listVars == <<task_works, next>>
callVars == <<pc, arg, want, pprev, lnext>>
runVars == <<run, work, head>>
vars == <<listVars, notify, exiting, pi_lock, callVars, runVars, queued>>

Init ==
    /\ task_works = NULL /\ next = [w \in Works \cup {Exited} |-> NULL]
    /\ notify = FALSE /\ exiting = FALSE /\ pi_lock = NULL
    /\ pc = [c \in Callers |-> "idle"] /\ arg = [c \in Callers |-> NULL]
    /\ want = [c \in Callers |-> NULL] /\ pprev = [c \in Callers |-> Head0]
    /\ lnext = [c \in Callers |-> NULL]
    /\ run = "user" /\ work = NULL /\ head = NULL
    /\ queued = <<>>

Goto(c, l) == pc' = [pc EXCEPT ![c] = l]

-----------------------------------------------------------------------------
(* task_work_add()                                                         *)

\* A work may be added again once it has been run or cancelled.
Free(w) ==
    ~Contains(queued, w) /\ \A c \in Callers : ~(pc[c] \in {"add", "add_cas"} /\ arg[c] = w)

BeginAdd(c, w) ==
    /\ pc[c] = "idle" /\ Free(w)
    /\ Goto(c, "add") /\ arg' = [arg EXCEPT ![c] = w]
    /\ UNCHANGED <<listVars, notify, exiting, pi_lock, want, pprev, lnext, runVars, queued>>

Closed == task_works = Exited

\* head = task->task_works; -ESRCH, or work->next = head.
AddRead(c) ==
    /\ pc[c] = "add"
    /\ IF Closed
       THEN Goto(c, "idle") /\ arg' = [arg EXCEPT ![c] = NULL] /\ UNCHANGED next
       ELSE Goto(c, "add_cas") /\ next' = [next EXCEPT ![arg[c]] = task_works] /\ UNCHANGED arg
    /\ UNCHANGED <<task_works, notify, exiting, pi_lock, want, pprev, lnext, runVars, queued>>

\* Mutant: the list may have changed since it was read.
HeadIgnored(c) == TRUE

HeadUnchanged(c) == task_works = next[arg[c]]

\* Mutant: notify is ignored.
NoNotify(w) == "idle"

AfterAdd(w) == IF w \in Notified THEN "notify" ELSE "idle"

AddCas(c) ==
    /\ pc[c] = "add_cas"
    /\ IF HeadUnchanged(c)
       THEN /\ task_works' = arg[c] /\ queued' = Append(queued, arg[c])
            /\ arg' = [arg EXCEPT ![c] = NULL] /\ Goto(c, AfterAdd(arg[c]))
       ELSE Goto(c, "add") /\ UNCHANGED <<task_works, queued, arg>>
    /\ UNCHANGED <<next, notify, exiting, pi_lock, want, pprev, lnext, runVars>>

SetNotifyResume(c) ==
    /\ pc[c] = "notify"
    /\ notify' = TRUE /\ Goto(c, "idle")
    /\ UNCHANGED <<listVars, exiting, pi_lock, arg, want, pprev, lnext, runVars, queued>>

-----------------------------------------------------------------------------
(* task_work_cancel()                                                      *)

CancelLock(c, f) ==
    /\ pc[c] = "idle" /\ pi_lock = NULL
    /\ pi_lock' = c /\ Goto(c, "cancel")
    /\ want' = [want EXCEPT ![c] = f] /\ pprev' = [pprev EXCEPT ![c] = Head0]
    /\ UNCHANGED <<listVars, notify, exiting, arg, lnext, runVars, queued>>

\* work_exited has no callback.
HasFunc(w, f) == w \in Works /\ func[w] = f

Deref(p) == IF p = Head0 THEN task_works ELSE next[p]

\* raw_spin_unlock_irqrestore(); return work.
CancelReturn(c) ==
    /\ pi_lock' = NULL /\ Goto(c, "idle")
    /\ arg' = [arg EXCEPT ![c] = NULL]
    /\ want' = [want EXCEPT ![c] = NULL] /\ lnext' = [lnext EXCEPT ![c] = NULL]
    /\ pprev' = [pprev EXCEPT ![c] = Head0]

\* work = *pprev: the end, somebody else's work, or one to unlink.
CancelRead(c) ==
    LET w == Deref(pprev[c]) IN
    /\ pc[c] = "cancel"
    /\ \/ w = NULL /\ CancelReturn(c)
       \/ /\ w # NULL /\ ~HasFunc(w, want[c])
          /\ pprev' = [pprev EXCEPT ![c] = w]
          /\ UNCHANGED <<pi_lock, pc, arg, want, lnext>>
       \/ /\ HasFunc(w, want[c])
          /\ Goto(c, "cancel_cas")
          /\ arg' = [arg EXCEPT ![c] = w] /\ lnext' = [lnext EXCEPT ![c] = next[w]]
          /\ UNCHANGED <<pi_lock, want, pprev>>
    /\ UNCHANGED <<listVars, notify, exiting, runVars, queued>>

\* cmpxchg(pprev, work, work->next)
CancelCas(c) ==
    /\ pc[c] = "cancel_cas"
    /\ IF Deref(pprev[c]) = arg[c]
       THEN /\ IF pprev[c] = Head0
               THEN task_works' = lnext[c] /\ UNCHANGED next
               ELSE next' = [next EXCEPT ![pprev[c]] = lnext[c]] /\ UNCHANGED task_works
            /\ queued' = RemoveFirst(queued, arg[c])
            /\ CancelReturn(c)
       ELSE /\ Goto(c, "cancel") /\ arg' = [arg EXCEPT ![c] = NULL]
            /\ UNCHANGED <<listVars, queued, pi_lock, want, pprev, lnext>>
    /\ UNCHANGED <<notify, exiting, runVars>>

-----------------------------------------------------------------------------
(* The task: tracehook_notify_resume(), exit, task_work_run().             *)

\* Back to user mode with TIF_NOTIFY_RESUME set, which is cleared first.
NotifyResume ==
    /\ run = "user" /\ notify /\ ~exiting
    /\ notify' = FALSE /\ run' = "resume"
    /\ UNCHANGED <<listVars, exiting, pi_lock, callVars, work, head, queued>>

\* if (unlikely(current->task_works)) task_work_run();
TestWorks ==
    /\ run = "resume"
    /\ run' = IF task_works = NULL THEN "user" ELSE "take"
    /\ UNCHANGED <<listVars, notify, exiting, pi_lock, callVars, work, head, queued>>

\* PF_EXITING, then exit_task_work().
Exit ==
    /\ run = "user" /\ ~exiting
    /\ exiting' = TRUE /\ run' = "take"
    /\ UNCHANGED <<listVars, notify, pi_lock, callVars, work, head, queued>>

TakenHead == IF task_works = NULL /\ exiting THEN Exited ELSE NULL

\* cmpxchg(&task->task_works, work, head)
TakeList ==
    /\ run = "take"
    /\ work' = task_works /\ task_works' = TakenHead
    /\ run' = IF task_works = NULL THEN "user" ELSE "wait"
    /\ UNCHANGED <<next, notify, exiting, pi_lock, callVars, head, queued>>

\* Mutant: no raw_spin_unlock_wait().
NoWait == TRUE

UnlockWait == pi_lock = NULL

WaitPiLock ==
    /\ run = "wait" /\ UnlockWait
    /\ head' = NULL /\ run' = "reverse"
    /\ UNCHANGED <<listVars, notify, exiting, pi_lock, callVars, work, queued>>

ReverseList ==
    /\ run = "reverse"
    /\ next' = [next EXCEPT ![work] = head]
    /\ IF next[work] = NULL
       THEN run' = "call" /\ head' = NULL /\ UNCHANGED work
       ELSE head' = work /\ work' = next[work] /\ UNCHANGED run
    /\ UNCHANGED <<task_works, notify, exiting, pi_lock, callVars, queued>>

\* next = work->next; work->func(work), after which the work may be reused.
RunFunc ==
    /\ run = "call"
    /\ queued' = RemoveFirst(queued, work)
    /\ work' = next[work]
    /\ run' = IF next[work] = NULL THEN "take" ELSE "call"
    /\ UNCHANGED <<listVars, notify, exiting, pi_lock, callVars, head>>

-----------------------------------------------------------------------------
CallStep(c) ==
    AddRead(c) \/ AddCas(c) \/ SetNotifyResume(c) \/ CancelRead(c) \/ CancelCas(c)

TaskStep == NotifyResume \/ TestWorks \/ TakeList \/ WaitPiLock \/ ReverseList \/ RunFunc

Next ==
    \/ \E c \in Callers :
        (\E w \in Works : BeginAdd(c, w)) \/ (\E f \in Funcs : CancelLock(c, f)) \/ CallStep(c)
    \/ TaskStep \/ Exit

Spec == Init /\ [][Next]_vars

\* Callers run on; the task returns to user mode when told to, and its wait for
\* ->pi_lock ends although cancellers come and go.
FairSpec ==
    Spec /\ WF_vars(TaskStep) /\ SF_vars(WaitPiLock) /\ \A c \in Callers : WF_vars(CallStep(c))

-----------------------------------------------------------------------------
(* Properties.                                                             *)

Nodes == Works \cup {NULL}

\* Types of the variables; no work is linked behind &work_exited by task_work_add().
TypeOK ==
    /\ task_works \in Nodes \cup {Exited} /\ next \in [Works \cup {Exited} -> Nodes]
    /\ notify \in BOOLEAN /\ exiting \in BOOLEAN /\ pi_lock \in Callers \cup {NULL}
    /\ pc \in [Callers -> {"idle", "add", "add_cas", "notify", "cancel", "cancel_cas"}]
    /\ arg \in [Callers -> Nodes] /\ want \in [Callers -> Funcs \cup {NULL}]
    /\ pprev \in [Callers -> Works \cup {Head0, Exited}] /\ lnext \in [Callers -> Nodes]
    /\ run \in {"user", "resume", "take", "wait", "reverse", "call"}
    /\ work \in Nodes /\ head \in Nodes
    /\ queued \in Seq(Works)

\* Works m to n of queued are a list whose newest, n, is at p, each linked to the one
\* added before it: as task_work_add() builds it.
Linked(p, m, n) ==
    IF m > n THEN p \in {NULL, Exited}
    ELSE /\ p = queued[n] /\ next[queued[m]] = NULL
         /\ \A i \in m + 1 .. n : next[queued[i]] = queued[i - 1]

\* Works m to n of queued are a list whose oldest, m, is at p: as task_work_run() calls
\* them.
Reversed(p, m, n) ==
    IF m > n THEN p = NULL
    ELSE /\ p = queued[m] /\ next[queued[n]] = NULL
         /\ \A i \in m .. n - 1 : next[queued[i]] = queued[i + 1]

\* The first k works of queued are those the task has taken and not yet run.
Taken(k) ==
    CASE run = "wait"    -> Linked(work, 1, k)
      [] run = "reverse" -> \E j \in 0 .. k : Linked(work, 1, j) /\ Reversed(head, j + 1, k)
      [] run = "call"    -> Reversed(work, 1, k)
      [] OTHER           -> k = 0

\* No work is lost, run twice, or run after it was cancelled, and works run in the
\* order in which they were added: what the task has taken and then what is linked is
\* what was added and neither run nor cancelled, in that order and each work once.
FifoExactlyOnce ==
    /\ IsInjective(queued)
    /\ \E k \in 0 .. Len(queued) : Taken(k) /\ Linked(task_works, k + 1, Len(queued))

\* task_work_add() succeeds as long as works can still run, and not after: once
\* the list is closed nothing is left on it or in the task's hands.
NothingAfterExit == task_works = Exited => queued = <<>> /\ run = "user"

\* Types, every accepted work on the list once and in order, and a list that is
\* closed only when it is empty.
ListInv == TypeOK /\ FifoExactlyOnce /\ NothingAfterExit

\* task_work_cancel() walks memory that is not reused under it: the link it is
\* about to change belongs to a work that is still queued.
CancelOnStableList ==
    \A c \in Callers :
        pc[c] \in {"cancel", "cancel_cas"} /\ pprev[c] \in Works => Contains(queued, pprev[c])

\* A work added with notify set is run or cancelled in the end.
EveryWorkHandled == \A w \in Notified : Contains(queued, w) ~> ~Contains(queued, w)
=============================================================================
