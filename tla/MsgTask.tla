------------------------------ MODULE MsgTask ------------------------------
(***************************************************************************)
(* The message task of the GPS stack: MsgTask (gps/utils/MsgTask.cpp) runs *)
(* on a LocThread (LocThread.cpp) and takes messages from a msg_q          *)
(* (msg_q.c over linked_list.c).                                           *)
(*                                                                         *)
(* Every critical section of the queue's mutex is one step; pthread_cond   *)
(* _wait gives the mutex up, so waiting and resuming are steps of their    *)
(* own.  The delegate that the spawned thread and its parent share is      *)
(* reference counted; the unlocked reads and writes of mRunnable and       *)
(* mJoinable are steps of their own.                                       *)
(***************************************************************************)
EXTENDS Naturals, Sequences

CONSTANTS
  Senders,    \* threads that call MsgTask::sendMsg
  MaxSends,   \* bound: messages each sender sends
  Joinable    \* values of the constructor's joinable argument

ASSUME MsgTaskAssumption == MaxSends \in Nat /\ Joinable \subseteq BOOLEAN

VARIABLES
  list,           \* msg_q.msg_list, oldest message first
  unblocked,      \* msg_q.unblocked
  pc,             \* where the spawned thread is in threadMain / run / msg_q_rcv
  msg,            \* the message it has received and not yet deleted, or <<>>
  mRunnable,      \* LocThreadDelegate::mRunnable # NULL
  mJoinable,      \* LocThreadDelegate::mJoinable
  joinable,       \* the constructor's joinable argument
  mRefCount,      \* LocThreadDelegate::mRefCount
  taskAlive,      \* the MsgTask (the LocRunnable) has not been deleted
  delegateAlive,  \* the LocThreadDelegate has not been deleted
  opc,            \* where the owner is in MsgTask::destroy
  sent,           \* messages each sender has offered
  accepted,       \* history: messages msg_q_snd stored, in order
  handled,        \* history: messages proc() was called for, in order
  dropped         \* history: messages a flush deallocated, in order

queueVars  == <<list, unblocked>>
threadVars == <<mRunnable, mJoinable, mRefCount, delegateAlive>>
history    == <<accepted, handled, dropped>>
vars == <<queueVars, pc, msg, threadVars, joinable, taskAlive, opc, sent, history>>

Messages == Senders \X (1 .. MaxSends)

\* "none": the thread was never created
ThreadPCs == {"none", "entry", "loop", "rcv", "waiting", "woken", "proc", "clear",
              "flush", "qdestroy", "bye", "done"}
OwnerPCs  == {"idle", "unblocked", "bye", "stop", "join", "drop",
              "flush", "qdestroy", "done"}

TypeOK ==
  /\ list \in Seq(Messages)
  /\ unblocked \in BOOLEAN
  /\ pc \in ThreadPCs
  /\ msg \in Seq(Messages) /\ Len(msg) =< 1
  /\ mRunnable \in BOOLEAN
  /\ mJoinable \in BOOLEAN
  /\ joinable \in Joinable
  /\ mRefCount \in 0 .. 2
  /\ taskAlive \in BOOLEAN
  /\ delegateAlive \in BOOLEAN
  /\ opc \in OwnerPCs
  /\ sent \in [Senders -> 0 .. MaxSends]
  /\ accepted \in Seq(Messages)
  /\ handled \in Seq(Messages)
  /\ dropped \in Seq(Messages)
----------------------------------------------------------------------------
(* The constructor has returned: the thread runs, or could not be created. *)
Init ==
  /\ list = <<>> /\ unblocked = FALSE /\ msg = <<>>
  /\ joinable \in Joinable
  /\ \/ /\ pc = "entry"
        /\ mRunnable = TRUE /\ mJoinable = joinable
        /\ mRefCount = 2 /\ delegateAlive = TRUE
     \/ /\ pc = "none"                 \* create() destroyed the delegate
        /\ mRunnable = FALSE /\ mJoinable = FALSE
        /\ mRefCount = 0 /\ delegateAlive = FALSE
  /\ taskAlive = TRUE
  /\ opc = "idle"
  /\ sent = [s \in Senders |-> 0]
  /\ accepted = <<>> /\ handled = <<>> /\ dropped = <<>>

\* mutant: the signal is forgotten
WakeForgotten == pc' = pc

\* pthread_cond_signal and pthread_cond_broadcast: one thread at most waits.
Wake == pc' = IF pc = "waiting" THEN "woken" ELSE pc
----------------------------------------------------------------------------
(* MsgTask::sendMsg / msg_q_snd by sender s.  A message sent after the     *)
(* unblock, or for which no list element can be allocated, is not stored   *)
(* (nobody frees it).                                                      *)

\* Clients do not call a task they have seen deleted.
Offer(s) ==
  /\ taskAlive /\ sent[s] < MaxSends
  /\ sent' = [sent EXCEPT ![s] = @ + 1]
  /\ UNCHANGED <<unblocked, msg, threadVars, taskAlive, joinable, opc, handled, dropped>>

\* mutant: msg_q_snd does not look at unblocked
SendUnchecked(s) ==
  /\ Offer(s)
  /\ list' = Append(list, <<s, sent[s] + 1>>)
  /\ accepted' = Append(accepted, <<s, sent[s] + 1>>)
  /\ Wake

Send(s) ==
  /\ Offer(s) /\ ~unblocked
  /\ list' = Append(list, <<s, sent[s] + 1>>)
  /\ accepted' = Append(accepted, <<s, sent[s] + 1>>)
  /\ Wake

SendNoMemory(s) ==
  /\ Offer(s) /\ ~unblocked
  /\ Wake
  /\ UNCHANGED <<list, accepted>>

SendRefused(s) ==
  /\ Offer(s) /\ unblocked
  /\ UNCHANGED <<list, accepted, pc>>
----------------------------------------------------------------------------
(* The spawned thread: threadMain, with MsgTask::run and msg_q_rcv.        *)

\* threadMain copies mRunnable to a local; with NULL there is nothing to run.
Enter ==
  /\ pc = "entry"
  /\ pc' = IF mRunnable THEN "loop" ELSE "bye"
  /\ UNCHANGED <<queueVars, msg, threadVars, taskAlive, joinable, opc, sent, history>>

\* while (locThread->isRunning() && runnable->run())
Loop ==
  /\ pc = "loop"
  /\ pc' = IF mRunnable THEN "rcv" ELSE "clear"
  /\ UNCHANGED <<queueVars, msg, threadVars, taskAlive, joinable, opc, sent, history>>

\* linked_list_remove under the mutex: the oldest message, or failure.
Take ==
  \/ list = <<>> /\ pc' = "clear" /\ UNCHANGED <<list, msg>>
  \/ list # <<>> /\ pc' = "proc" /\ msg' = <<Head(list)>> /\ list' = Tail(list)

\* msg_q_rcv up to its wait; a queue already unblocked is refused even if it
\* still holds messages.
Receive ==
  /\ pc = "rcv"
  /\ \/ unblocked /\ pc' = "clear" /\ UNCHANGED <<list, msg>>
     \/ ~unblocked /\ list = <<>> /\ pc' = "waiting" /\ UNCHANGED <<list, msg>>
     \/ ~unblocked /\ list # <<>> /\ Take
  /\ UNCHANGED <<unblocked, threadVars, taskAlive, joinable, opc, sent, history>>

\* back from pthread_cond_wait with the mutex: the loop's condition again
Resume ==
  /\ pc = "woken"
  /\ \/ list = <<>> /\ ~unblocked /\ pc' = "waiting" /\ UNCHANGED <<list, msg>>
     \/ (list # <<>> \/ unblocked) /\ Take
  /\ UNCHANGED <<unblocked, threadVars, taskAlive, joinable, opc, sent, history>>

\* msg->proc(); delete msg
Handle ==
  /\ pc = "proc"
  /\ handled' = handled \o msg
  /\ msg' = <<>>
  /\ pc' = "loop"
  /\ UNCHANGED <<queueVars, threadVars, taskAlive, joinable, opc, sent, accepted, dropped>>

\* locThread->mRunnable = NULL on the way out
Clear ==
  /\ pc = "clear"
  /\ mRunnable' = FALSE
  /\ pc' = "flush"
  /\ UNCHANGED <<queueVars, msg, mJoinable, mRefCount, delegateAlive, taskAlive, joinable,
                 opc, sent, history>>

FlushList ==
  /\ dropped' = dropped \o list
  /\ list' = <<>>

\* delete runnable: ~MsgTask flushes the queue under its mutex ...
Flush ==
  /\ pc = "flush"
  /\ FlushList
  /\ pc' = "qdestroy"
  /\ UNCHANGED <<unblocked, msg, threadVars, taskAlive, joinable, opc, sent, accepted, handled>>

\* ... and destroys it, flushing once more without the mutex.
QDestroy ==
  /\ pc = "qdestroy"
  /\ FlushList
  /\ unblocked' = FALSE
  /\ taskAlive' = FALSE
  /\ pc' = "bye"
  /\ UNCHANGED <<msg, threadVars, joinable, opc, sent, accepted, handled>>

\* mutants: the first caller deletes; nobody deletes (off by one)
DropDeletesFirst ==
  /\ mRefCount' = mRefCount - 1
  /\ delegateAlive' = FALSE
DropNeverDeletes ==
  \/ /\ mRefCount > 0
     /\ mRefCount' = mRefCount - 1
     /\ UNCHANGED delegateAlive
  \/ mRefCount = 0 /\ UNCHANGED <<mRefCount, delegateAlive>>

\* LocThreadDelegate::destroy: the last of the two callers deletes it.
DropReference ==
  \/ /\ mRefCount > 1
     /\ mRefCount' = mRefCount - 1
     /\ UNCHANGED delegateAlive
  \/ /\ mRefCount = 1
     /\ mRefCount' = 0
     /\ delegateAlive' = FALSE
  \/ /\ mRefCount = 0
     /\ UNCHANGED <<mRefCount, delegateAlive>>

ThreadBye ==
  /\ pc = "bye"
  /\ DropReference
  /\ pc' = "done"
  /\ UNCHANGED <<queueVars, msg, mRunnable, mJoinable, taskAlive, joinable, opc, sent, history>>
----------------------------------------------------------------------------
(* MsgTask::destroy by the owner, called once.                             *)

\* LocThread* thread = mThread; msg_q_unblock
Unblock ==
  /\ opc = "idle"
  /\ unblocked' = TRUE
  /\ Wake
  /\ opc' = IF pc = "none" THEN "flush" ELSE "unblocked"
  /\ UNCHANGED <<list, msg, threadVars, taskAlive, joinable, sent, history>>

\* mThread = NULL; delete thread, whose bye() reads mJoinable
DeleteThread ==
  /\ opc = "unblocked"
  /\ opc' = IF mJoinable THEN "stop" ELSE "drop"
  /\ UNCHANGED <<queueVars, pc, msg, threadVars, taskAlive, joinable, sent, history>>

\* stop(): no new iteration of the loop
Stop ==
  /\ opc = "stop"
  /\ mRunnable' = FALSE
  /\ mJoinable' = FALSE
  /\ opc' = "join"
  /\ UNCHANGED <<queueVars, pc, msg, mRefCount, delegateAlive, taskAlive, joinable, sent, history>>

\* pthread_join returns
Join ==
  /\ opc = "join" /\ pc = "done"
  /\ opc' = "drop"
  /\ UNCHANGED <<queueVars, pc, msg, threadVars, taskAlive, joinable, sent, history>>

OwnerBye ==
  /\ opc = "drop"
  /\ DropReference
  /\ opc' = "done"
  /\ UNCHANGED <<queueVars, pc, msg, mRunnable, mJoinable, taskAlive, joinable, sent, history>>

\* delete this, when no thread was ever created
DeleteThis ==
  \/ /\ opc = "flush"
     /\ FlushList
     /\ opc' = "qdestroy"
     /\ UNCHANGED <<unblocked, taskAlive, joinable, pc, msg, threadVars, sent, accepted, handled>>
  \/ /\ opc = "qdestroy"
     /\ FlushList
     /\ unblocked' = FALSE /\ taskAlive' = FALSE
     /\ opc' = "done"
     /\ UNCHANGED <<pc, msg, threadVars, joinable, sent, accepted, handled>>
----------------------------------------------------------------------------
\* A wakeup nobody asked for, which POSIX allows.
Spurious ==
  /\ pc = "waiting"
  /\ pc' = "woken"
  /\ UNCHANGED <<queueVars, msg, threadVars, taskAlive, joinable, opc, sent, history>>

Thread == Enter \/ Loop \/ Receive \/ Resume \/ Handle \/ Clear \/ Flush
            \/ QDestroy \/ ThreadBye
Owner  == DeleteThread \/ Stop \/ Join \/ OwnerBye \/ DeleteThis
Sender(s) == Send(s) \/ SendNoMemory(s) \/ SendRefused(s)

\* Everything is over, or nobody ever destroys the task and it waits for messages.
Quiescent ==
  /\ \A s \in Senders : sent[s] = MaxSends \/ ~taskAlive
  /\ opc = "done" /\ pc \in {"done", "none"}
  /\ UNCHANGED vars

Next ==
  \/ \E s \in Senders : Sender(s)
  \/ Thread \/ Spurious
  \/ Unblock \/ Owner
  \/ Quiescent

Spec == Init /\ [][Next]_vars

\* The scheduler runs the spawned thread, and an owner that has begun
\* MsgTask::destroy; nobody has to send or to destroy.
FairSpec == Spec /\ WF_vars(Thread) /\ WF_vars(Owner)
----------------------------------------------------------------------------
(* No wakeup is lost: the thread never sleeps on a queue that holds a      *)
(* message or has been unblocked (msg_q_snd signals, msg_q_unblock         *)
(* broadcasts, msg_q_rcv tests before it waits).                           *)
NoLostWakeup == pc = "waiting" => list = <<>> /\ ~unblocked

(* What msg_q_snd accepts is handled or dropped exactly once, in order:    *)
(* no message is lost between the list, the thread and the final flush.    *)
EachMessageOnce == accepted = handled \o msg \o dropped \o list

(* The shared delegate is deleted by the last of its two users, so neither *)
(* threadMain nor bye()/stop() ever runs on a deleted delegate.            *)
DelegateOutlivesUsers ==
  pc \notin {"none", "done"} \/ opc \in {"unblocked", "stop", "join", "drop"}
    => delegateAlive

(* The thread never runs on a deleted MsgTask.                             *)
TaskOutlivesLoop ==
  pc \in {"loop", "rcv", "waiting", "woken", "proc", "clear", "flush", "qdestroy"} => taskAlive

(* destroy() of a joinable task returns only after the thread has ended:   *)
(* no message is handled behind the back of an owner that has returned.    *)
JoinableEndsFirst == joinable /\ opc = "done" => pc \in {"done", "none"}

(* The three together: each object outlives those that run on it.          *)
LifetimesNest == DelegateOutlivesUsers /\ TaskOutlivesLoop /\ JoinableEndsFirst

(* Once thread and owner are done the shared delegate is deleted, and a    *)
(* detached task has been deleted by its thread: the loop ends because of  *)
(* the unblock, never because mRunnable was taken away.                    *)
NothingLeaked ==
  pc = "done" /\ opc = "done" => ~delegateAlive /\ (taskAlive => joinable)

(* A destroyed task ends, whatever it was doing (liveness of the unblock). *)
DestroyEnds == opc = "unblocked" ~> opc = "done" /\ pc = "done"

(* A stored message does not stay: it is handled or dropped, unless the    *)
(* task has no thread or was stopped before its thread ran (the runnable   *)
(* is then never deleted).                                                 *)
MessagesDrain == [](list # <<>> /\ pc \notin {"none", "entry", "bye", "done"} => <>(list = <<>>))

(* A thread that can run goes on: both of the above.                       *)
KeepsGoing == DestroyEnds /\ MessagesDrain
----------------------------------------------------------------------------
Ordered == INSTANCE OrderedTask WITH
  Message <- Messages,
  inbox   <- msg \o list,
  done    <- handled,
  closed  <- opc # "idle"

(* The task is an ordered, at-most-once executor that discards messages    *)
(* only once its owner has called destroy().                               *)
ImplementsOrderedTask == Ordered!Spec
============================================================================
