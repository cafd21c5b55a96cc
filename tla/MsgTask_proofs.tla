-------------------------- MODULE MsgTask_proofs --------------------------
(***************************************************************************)
(* Safety of the GPS message task for any number of senders and messages.  *)
(***************************************************************************)
EXTENDS MsgTask, SequenceTheorems, TLAPS

(* What the queue operations need to know about sequences of messages:     *)
(* the empty list, concatenation, and linked_list_remove's head and tail.  *)
LEMMA Lists ==
  ASSUME NEW S, NEW x \in Seq(S), NEW y \in Seq(S)
  PROVE  /\ <<>> \in Seq(S) /\ Len(<<>>) = 0
         /\ x \o y \in Seq(S)
         /\ x # <<>> => /\ Head(x) \in S
                        /\ <<Head(x)>> \in Seq(S) /\ Len(<<Head(x)>>) = 1
                        /\ Tail(x) \in Seq(S)
<1>1. x # <<>> => Head(x) \in S /\ Tail(x) \in Seq(S)
  BY HeadTailProperties
<1>2. ASSUME NEW e \in S PROVE <<e>> \in Seq(S) /\ Len(<<e>>) = 1
  OBVIOUS
<1> QED
  BY <1>1, <1>2, EmptySeq, ConcatProperties

(* LocThreadDelegate::destroy never takes the count below zero.            *)
LEMMA RefCount ==
  ASSUME mRefCount \in 0 .. 2, DropReference
  PROVE  mRefCount' \in 0 .. 2
BY DEF DropReference

FlagsOK ==
  /\ unblocked \in BOOLEAN
  /\ mRunnable \in BOOLEAN
  /\ mJoinable \in BOOLEAN
  /\ joinable \in Joinable
  /\ taskAlive \in BOOLEAN
  /\ delegateAlive \in BOOLEAN

(* Each operation writes a truth value to the flags it writes at all.      *)
LEMMA Flags ==
  ASSUME FlagsOK, [Next]_vars
  PROVE  FlagsOK'
<1> USE DEF FlagsOK, queueVars, threadVars
<1>1. ASSUME NEW s \in Senders, Sender(s) PROVE FlagsOK'
  BY <1>1 DEF Sender, Send, SendNoMemory, SendRefused, Offer
<1>2. CASE Thread
  BY <1>2 DEF Thread, Enter, Loop, Receive, Resume, Handle, Clear, Flush, QDestroy,
     ThreadBye, DropReference
<1>3. CASE Owner
  BY <1>3 DEF Owner, DeleteThread, Stop, Join, OwnerBye, DeleteThis, DropReference
<1>4. CASE Unblock \/ Spurious \/ UNCHANGED vars
  BY <1>4 DEF Unblock, Spurious, vars
<1> QED
  BY <1>1, <1>2, <1>3, <1>4 DEF Next, Quiescent

DataOK ==
  /\ list \in Seq(Messages)
  /\ msg \in Seq(Messages) /\ Len(msg) =< 1
  /\ pc \in ThreadPCs
  /\ opc \in OwnerPCs
  /\ mRefCount \in 0 .. 2
  /\ sent \in [Senders -> 0 .. MaxSends]
  /\ accepted \in Seq(Messages)
  /\ handled \in Seq(Messages)
  /\ dropped \in Seq(Messages)

(* linked_list_remove hands out a message of the list.                     *)
LEMMA TakeType ==
  ASSUME DataOK, Take
  PROVE  /\ list' \in Seq(Messages)
         /\ msg' \in Seq(Messages) /\ Len(msg') =< 1
         /\ pc' \in ThreadPCs
<1>1. CASE list = <<>>
  BY <1>1 DEF Take, DataOK, ThreadPCs
<1>2. CASE list # <<>>
  <2>1. /\ Head(list) \in Messages /\ Tail(list) \in Seq(Messages)
        /\ <<Head(list)>> \in Seq(Messages) /\ Len(<<Head(list)>>) = 1
    BY <1>2, Lists DEF DataOK
  <2>2. msg' = <<Head(list)>> /\ list' = Tail(list) /\ pc' = "proc"
    BY <1>2 DEF Take
  <2>3. list' \in Seq(Messages) /\ msg' \in Seq(Messages)
    BY <2>1, <2>2
  <2>4. Len(msg') = 1
    BY <2>1, <2>2
  <2> QED
    BY <2>2, <2>3, <2>4 DEF ThreadPCs
<1> QED
  BY <1>1, <1>2

(* Every operation keeps the types of the queue and of the program counters. *)
LEMMA Data ==
  ASSUME DataOK, [Next]_vars
  PROVE  DataOK'
<1> USE DEF queueVars, threadVars, history
<1>1. ASSUME NEW s \in Senders, Sender(s) PROVE DataOK'
  <2>1. sent[s] \in 0 .. MaxSends /\ sent[s] < MaxSends
    BY <1>1 DEF Sender, Send, SendNoMemory, SendRefused, Offer, DataOK
  <2>2. sent[s] + 1 \in 1 .. MaxSends
    BY <2>1, MsgTaskAssumption DEF MsgTaskAssumption
  <2>3. sent' = [sent EXCEPT ![s] = sent[s] + 1]
    BY <1>1 DEF Sender, Send, SendNoMemory, SendRefused, Offer
  <2>4. sent' \in [Senders -> 0 .. MaxSends]
    BY <2>2, <2>3 DEF DataOK
  <2>5. <<s, sent[s] + 1>> \in Messages
    BY <2>2 DEF Messages
  <2>6. CASE Send(s)
    <3>1. list' \in Seq(Messages) /\ accepted' \in Seq(Messages)
      BY <2>5, <2>6, AppendProperties DEF Send, DataOK
    <3> QED
      BY <2>4, <2>6, <3>1 DEF Send, Offer, Wake, DataOK, ThreadPCs
  <2>7. CASE SendNoMemory(s)
    BY <2>4, <2>7 DEF SendNoMemory, Offer, Wake, DataOK, ThreadPCs
  <2>8. CASE SendRefused(s)
    BY <2>4, <2>8 DEF SendRefused, Offer, DataOK
  <2> QED
    BY <1>1, <2>6, <2>7, <2>8 DEF Sender
<1>2. CASE Enter \/ Loop \/ Clear
  BY <1>2 DEF Enter, Loop, Clear, DataOK, ThreadPCs
<1>3. CASE Receive
  <2>1. CASE Take
    BY <1>3, <2>1, TakeType DEF Receive, DataOK
  <2>2. CASE ~Take
    BY <1>3, <2>2 DEF Receive, DataOK, ThreadPCs
  <2> QED
    BY <2>1, <2>2
<1>4. CASE Resume
  <2>1. CASE Take
    BY <1>4, <2>1, TakeType DEF Resume, DataOK
  <2>2. CASE ~Take
    BY <1>4, <2>2 DEF Resume, DataOK, ThreadPCs
  <2> QED
    BY <2>1, <2>2
<1>5. CASE Handle
  <2>1. handled' \in Seq(Messages) /\ msg' \in Seq(Messages) /\ Len(msg') = 0
    BY <1>5, Lists DEF Handle, DataOK
  <2> QED
    BY <1>5, <2>1 DEF Handle, DataOK, ThreadPCs
<1>6. ASSUME FlushList
      PROVE  dropped' \in Seq(Messages) /\ list' \in Seq(Messages)
  BY <1>6, Lists DEF FlushList, DataOK
<1>7. CASE Flush \/ QDestroy
  <2>1. FlushList
    BY <1>7 DEF Flush, QDestroy
  <2> QED
    BY <1>6, <1>7, <2>1 DEF Flush, QDestroy, DataOK, ThreadPCs
<1>8. CASE ThreadBye
  BY <1>8, RefCount DEF ThreadBye, DataOK, ThreadPCs
<1>9. CASE Unblock
  BY <1>9 DEF Unblock, Wake, DataOK, ThreadPCs, OwnerPCs
<1>10. CASE DeleteThread \/ Stop \/ Join
  BY <1>10 DEF DeleteThread, Stop, Join, DataOK, OwnerPCs
<1>11. CASE OwnerBye
  BY <1>11, RefCount DEF OwnerBye, DataOK, OwnerPCs
<1>12. CASE DeleteThis
  <2>1. FlushList
    BY <1>12 DEF DeleteThis
  <2> QED
    BY <1>6, <1>12, <2>1 DEF DeleteThis, DataOK, OwnerPCs
<1>13. CASE Spurious
  BY <1>13 DEF Spurious, DataOK, ThreadPCs
<1>14. CASE UNCHANGED vars
  BY <1>14 DEF vars, DataOK
<1> QED
  BY <1>1, <1>2, <1>3, <1>4, <1>5, <1>7, <1>8, <1>9, <1>10, <1>11, <1>12,
     <1>13, <1>14 DEF Next, Thread, Owner, Quiescent

(* The variables keep their types under every operation of the queue, the  *)
(* delegate and the task.                                                  *)
THEOREM TypeCorrect == Spec => []TypeOK
<1>1. Init => DataOK
  <2> SUFFICES ASSUME Init PROVE DataOK
    OBVIOUS
  <2>1. <<>> \in Seq(Messages) /\ Len(<<>>) = 0
    BY EmptySeq
  <2>2. /\ list = <<>> /\ msg = <<>>
        /\ accepted = <<>> /\ handled = <<>> /\ dropped = <<>>
    BY DEF Init
  <2>3. pc \in ThreadPCs /\ opc \in OwnerPCs
    BY DEF Init, ThreadPCs, OwnerPCs
  <2>4. mRefCount \in 0 .. 2
    BY DEF Init
  <2>5. sent \in [Senders -> 0 .. MaxSends]
    BY MsgTaskAssumption DEF Init, MsgTaskAssumption
  <2> QED
    BY <2>1, <2>2, <2>3, <2>4, <2>5 DEF DataOK
<1>2. Init => FlagsOK
  BY MsgTaskAssumption DEF Init, FlagsOK, MsgTaskAssumption
<1>3. TypeOK <=> DataOK /\ FlagsOK
  BY DEF TypeOK, DataOK, FlagsOK
<1> QED
  BY <1>1, <1>2, <1>3, Data, Flags, PTL DEF Spec
----------------------------------------------------------------------------
(* Who lives how long.  The delegate's count is the number of its users    *)
(* left; the parts below make the four lifetime properties inductive.      *)

SharedInv ==
  /\ pc = "none" => mRefCount = 0 /\ opc \in {"idle", "flush", "qdestroy", "done"}
  /\ pc # "none" =>
       /\ opc \notin {"flush", "qdestroy"}
       /\ mRefCount = (IF pc = "done" THEN 0 ELSE 1) + (IF opc = "done" THEN 0 ELSE 1)
  /\ delegateAlive <=> mRefCount > 0

JoinInv ==
  /\ mJoinable => joinable
  /\ joinable /\ pc # "none" /\ opc \in {"idle", "unblocked"} => mJoinable
  /\ joinable /\ pc # "none" /\ opc \in {"drop", "done"} => pc = "done"
  /\ ~joinable => opc \notin {"stop", "join"}

BeforeClear == {"entry", "loop", "rcv", "waiting", "woken", "proc", "clear"}

TaskInv ==
  /\ pc \in BeforeClear \cup {"flush", "qdestroy"} => taskAlive
  /\ ~joinable /\ pc \in BeforeClear => mRunnable
  /\ ~joinable /\ pc \in {"bye", "done"} => ~taskAlive

LifeInv == SharedInv /\ JoinInv /\ TaskInv /\ NoLostWakeup

\* The steps of clients move the thread from its wait at most.
ClientStep ==
  /\ pc' = pc \/ (pc = "waiting" /\ pc' = "woken")
  /\ UNCHANGED <<threadVars, taskAlive, joinable, opc>>

(* sendMsg and a spurious wakeup are such steps.                           *)
LEMMA Clients ==
  ASSUME (\E s \in Senders : Sender(s)) \/ Spurious
  PROVE  ClientStep
BY DEF Sender, Send, SendNoMemory, SendRefused, Offer, Wake, Spurious, ClientStep

(* The count follows the two users of the delegate (destroy, bye, stop).   *)
LEMMA Shared ==
  ASSUME DataOK, FlagsOK, SharedInv, JoinInv, [Next]_vars
  PROVE  SharedInv'
<1> USE DEF queueVars, threadVars, SharedInv
<1>1. CASE ClientStep
  BY <1>1 DEF ClientStep
<1>2. CASE Thread
  <2>1. CASE ThreadBye
    BY <2>1 DEF ThreadBye, DropReference
  <2>2. CASE Enter \/ Loop \/ Receive \/ Resume \/ Handle \/ Clear \/ Flush \/ QDestroy
    BY <2>2 DEF Enter, Loop, Receive, Resume, Take, Handle, Clear, Flush, QDestroy
  <2> QED BY <1>2, <2>1, <2>2 DEF Thread
<1>3. CASE Unblock
  BY <1>3 DEF Unblock, Wake
<1>4. CASE Owner
  <2>1. CASE OwnerBye
    BY <2>1 DEF OwnerBye, DropReference
  <2>2. CASE DeleteThread \/ Stop \/ Join \/ DeleteThis
    BY <2>2 DEF DeleteThread, Stop, Join, DeleteThis
  <2> QED BY <1>4, <2>1, <2>2 DEF Owner
<1>5. CASE UNCHANGED vars
  BY <1>5 DEF vars
<1> QED BY <1>1, <1>2, <1>3, <1>4, <1>5, Clients DEF Next, Quiescent

(* Only a joinable task's owner stops and joins its thread.                *)
LEMMA Joins ==
  ASSUME FlagsOK, SharedInv, JoinInv, [Next]_vars
  PROVE  JoinInv'
<1> USE DEF queueVars, threadVars, JoinInv
<1>1. CASE ClientStep
  BY <1>1 DEF ClientStep
<1>2. CASE Thread
  BY <1>2 DEF Thread, Enter, Loop, Receive, Resume, Take, Handle, Clear, Flush, QDestroy,
     ThreadBye, DropReference
<1>3. CASE Unblock
  BY <1>3 DEF Unblock, Wake
<1>4. CASE Owner
  BY <1>4 DEF Owner, DeleteThread, Stop, Join, OwnerBye, DeleteThis, DropReference, SharedInv
<1>5. CASE UNCHANGED vars
  BY <1>5 DEF vars
<1> QED BY <1>1, <1>2, <1>3, <1>4, <1>5, Clients DEF Next, Quiescent

(* The thread deletes the task, and does nothing with it afterwards.       *)
LEMMA TaskLives ==
  ASSUME FlagsOK, SharedInv, JoinInv, TaskInv, [Next]_vars
  PROVE  TaskInv'
<1> USE DEF queueVars, threadVars, TaskInv, BeforeClear
<1>1. CASE ClientStep
  BY <1>1 DEF ClientStep
<1>2. CASE Thread
  BY <1>2 DEF Thread, Enter, Loop, Receive, Resume, Take, Handle, Clear, Flush, QDestroy,
     ThreadBye, DropReference
<1>3. CASE Unblock
  BY <1>3 DEF Unblock, Wake
<1>4. CASE Owner
  BY <1>4 DEF Owner, DeleteThread, Stop, Join, OwnerBye, DeleteThis, DropReference, SharedInv, JoinInv
<1>5. CASE UNCHANGED vars
  BY <1>5 DEF vars
<1> QED BY <1>1, <1>2, <1>3, <1>4, <1>5, Clients DEF Next, Quiescent

(* What ends the sleep, a message stored or the unblock, wakes the thread. *)
LEMMA Sleeps ==
  ASSUME SharedInv, NoLostWakeup, [Next]_vars
  PROVE  NoLostWakeup'
<1> USE DEF queueVars, threadVars, NoLostWakeup
<1>1. ASSUME NEW s \in Senders, Sender(s) PROVE NoLostWakeup'
  BY <1>1 DEF Sender, Send, SendNoMemory, SendRefused, Offer, Wake
<1>2. CASE Thread
  BY <1>2 DEF Thread, Enter, Loop, Receive, Resume, Take, Handle, Clear, Flush, QDestroy, ThreadBye
<1>3. CASE Unblock \/ Spurious \/ UNCHANGED vars
  BY <1>3 DEF Unblock, Spurious, Wake, vars
<1>4. CASE Owner
  BY <1>4 DEF Owner, DeleteThread, Stop, Join, OwnerBye, DeleteThis, SharedInv
<1> QED BY <1>1, <1>2, <1>3, <1>4 DEF Next, Quiescent

(* The four parts hold together.                                           *)
LEMMA Life == Spec => []LifeInv
<1>1. Init => LifeInv
  BY DEF Init, LifeInv, SharedInv, JoinInv, TaskInv, BeforeClear, NoLostWakeup
<1>2. LifeInv /\ TypeOK /\ [Next]_vars => LifeInv'
  <2>1. TypeOK => DataOK /\ FlagsOK
    BY DEF TypeOK, DataOK, FlagsOK
  <2> QED BY <2>1, Shared, Joins, TaskLives, Sleeps DEF LifeInv
<1> QED BY <1>1, <1>2, TypeCorrect, PTL DEF Spec

(* The thread never sleeps over a stored message or an unblocked queue,    *)
(* however many threads send and whenever the owner destroys the task.     *)
THEOREM NoWakeupLost == Spec => []NoLostWakeup
<1>1. LifeInv => NoLostWakeup
  BY DEF LifeInv
<1> QED BY <1>1, Life, PTL

(* Neither the thread nor its owner uses the delegate the other deleted.   *)
THEOREM DelegateSafe == Spec => []DelegateOutlivesUsers
<1>1. LifeInv => DelegateOutlivesUsers
  BY DEF LifeInv, SharedInv, DelegateOutlivesUsers
<1> QED BY <1>1, Life, PTL

(* When both are done, the delegate and a detached task have been deleted.  *)
THEOREM NothingIsLeaked == Spec => []NothingLeaked
<1>1. LifeInv => NothingLeaked
  BY DEF LifeInv, SharedInv, TaskInv, NothingLeaked
<1> QED BY <1>1, Life, PTL

(* The thread does not use the MsgTask after it has been deleted.          *)
THEOREM TaskSafe == Spec => []TaskOutlivesLoop
<1>1. LifeInv => TaskOutlivesLoop
  BY DEF LifeInv, TaskInv, BeforeClear, TaskOutlivesLoop
<1> QED BY <1>1, Life, PTL

(* destroy() of a joinable task returns after the thread's last step.      *)
THEOREM JoinableTaskEndsFirst == Spec => []JoinableEndsFirst
<1>1. LifeInv => JoinableEndsFirst
  BY DEF LifeInv, JoinInv, JoinableEndsFirst
<1> QED BY <1>1, Life, PTL

(* In any interleaving of thread and owner each object outlives its users. *)
THEOREM LifetimesAreNested == Spec => []LifetimesNest
<1>1. DelegateOutlivesUsers /\ TaskOutlivesLoop /\ JoinableEndsFirst => LifetimesNest
  BY DEF LifetimesNest
<1> QED BY <1>1, DelegateSafe, TaskSafe, JoinableTaskEndsFirst, PTL
----------------------------------------------------------------------------
(* Where the messages are.  While the thread may still receive, nothing has *)
(* been dropped, and it holds a message only while it handles it.           *)

OrderInv ==
  /\ EachMessageOnce
  /\ pc # "proc" => msg = <<>>
  /\ pc \in BeforeClear => dropped = <<>>

(* Concatenation of message sequences is associative.                      *)
LEMMA Assoc ==
  ASSUME NEW a \in Seq(Messages), NEW b \in Seq(Messages), NEW c \in Seq(Messages)
  PROVE  (a \o b) \o c = a \o (b \o c)
BY ConcatAssociative

(* Appending a message concatenates it.                                    *)
LEMMA AppendOne ==
  ASSUME NEW a \in Seq(Messages), NEW m \in Messages
  PROVE  /\ Append(a, m) = a \o <<m>>
         /\ <<m>> \in Seq(Messages)
<1>1. Append(a, m) = a \o <<m>>
  BY AppendIsConcat
<1> QED BY <1>1

(* A message received moves from the head of the list to the thread.       *)
LEMMA TakeKeepsOrder ==
  ASSUME DataOK, OrderInv, pc \in {"rcv", "woken"}, Take, UNCHANGED <<accepted, handled, dropped>>
  PROVE  OrderInv'
<1>1. msg = <<>> /\ dropped = <<>>
  BY DEF OrderInv, BeforeClear
<1>2. CASE list = <<>>
  BY <1>1, <1>2 DEF Take, OrderInv, EachMessageOnce, BeforeClear
<1>3. CASE list # <<>>
  <2>1. /\ Head(list) \in Messages /\ Tail(list) \in Seq(Messages)
        /\ <<Head(list)>> \in Seq(Messages)
    BY <1>3, Lists DEF DataOK
  <2>2. msg' = <<Head(list)>> /\ list' = Tail(list) /\ pc' = "proc"
    BY <1>3 DEF Take
  <2>3. <<Head(list)>> \o Tail(list) = list
    BY <1>3 DEF DataOK
  <2>4. accepted = handled \o list
    BY <1>1, ConcatEmptySeq DEF OrderInv, EachMessageOnce, DataOK
  <2>5. handled \o <<Head(list)>> \in Seq(Messages)
    BY <2>1, ConcatProperties DEF DataOK
  <2>6. (handled \o <<Head(list)>> \o <<>>) \o Tail(list) = handled \o (<<Head(list)>> \o Tail(list))
    BY SMTT(60), <2>1, <2>5, ConcatEmptySeq, ConcatAssociative DEF DataOK
  <2> QED BY <1>1, <2>2, <2>3, <2>4, <2>6 DEF OrderInv, EachMessageOnce
<1> QED BY <1>2, <1>3

(* Sending appends, handling and flushing move along; none is lost.        *)
LEMMA Order ==
  ASSUME DataOK, OrderInv, SharedInv, [Next]_vars
  PROVE  OrderInv'
<1> USE DEF queueVars, threadVars, history
<1> DEFINE HM  == handled \o msg
           HMD == handled \o msg \o dropped
<1>1. HM \in Seq(Messages) /\ HMD \in Seq(Messages)
  BY ConcatProperties DEF DataOK
<1>2. accepted = HMD \o list
  BY DEF OrderInv, EachMessageOnce
<1>3. ASSUME NEW s \in Senders, Sender(s) PROVE OrderInv'
  <2>1. CASE Send(s)
    <3> DEFINE m == <<s, sent[s] + 1>>
    <3>1. sent[s] \in 0 .. MaxSends /\ sent[s] < MaxSends
      BY <2>1 DEF Send, Offer, DataOK
    <3>2. m \in Messages
      BY <3>1, MsgTaskAssumption DEF MsgTaskAssumption, Messages
    <3>3. accepted' = Append(accepted, m) /\ list' = Append(list, m)
      BY <2>1 DEF Send
    <3>4. accepted \in Seq(Messages) /\ list \in Seq(Messages)
      BY DEF DataOK
    <3> HIDE DEF m, HM, HMD
    <3>5. accepted' = HMD \o list'
      <4>1. <<m>> \in Seq(Messages) /\ accepted' = accepted \o <<m>> /\ list' = list \o <<m>>
        BY <3>2, <3>3, <3>4, AppendOne
      <4>2. (HMD \o list) \o <<m>> = HMD \o (list \o <<m>>)
        BY <1>1, <3>4, <4>1, Assoc
      <4> QED BY <1>2, <4>1, <4>2
    <3> QED BY <2>1, <3>5 DEF Send, Offer, Wake, OrderInv, EachMessageOnce, BeforeClear, HM, HMD
  <2>2. CASE SendNoMemory(s) \/ SendRefused(s)
    BY <2>2 DEF SendNoMemory, SendRefused, Offer, Wake, OrderInv, EachMessageOnce, BeforeClear
  <2> QED BY <1>3, <2>1, <2>2 DEF Sender
<1>4. CASE Enter \/ Loop \/ Clear \/ ThreadBye
  BY <1>4 DEF Enter, Loop, Clear, ThreadBye, OrderInv, EachMessageOnce, BeforeClear
<1>5. CASE Receive \/ Resume
  <2>1. CASE Take
    BY <1>5, <2>1, TakeKeepsOrder DEF Receive, Resume
  <2>2. CASE ~Take
    BY <1>5, <2>2 DEF Receive, Resume, OrderInv, EachMessageOnce, BeforeClear
  <2> QED BY <2>1, <2>2
<1>6. CASE Handle
  <2>1. HM \o <<>> = HM /\ dropped = <<>>
    BY <1>1, <1>6, ConcatEmptySeq DEF Handle, OrderInv, BeforeClear
  <2>2. handled' = HM /\ msg' = <<>> /\ dropped' = dropped /\ list' = list /\ accepted' = accepted
        /\ pc' = "loop"
    BY <1>6 DEF Handle
  <2>3. accepted' = handled' \o msg' \o dropped' \o list'
    BY <1>2, <2>1, <2>2
  <2> QED BY <2>1, <2>2, <2>3 DEF OrderInv, EachMessageOnce, BeforeClear
<1>7. ASSUME FlushList, UNCHANGED <<msg, accepted, handled>>,
             pc \notin BeforeClear, pc' \notin BeforeClear
      PROVE  OrderInv'
  <2>1. dropped \o list \in Seq(Messages) /\ <<>> \in Seq(Messages)
    BY ConcatProperties, EmptySeq DEF DataOK
  <2>2. HM \o (dropped \o list) = HMD \o list
    <3>1. dropped \in Seq(Messages) /\ list \in Seq(Messages) /\ HMD = HM \o dropped
      BY DEF DataOK
    <3> HIDE DEF HM, HMD
    <3> QED BY <1>1, <3>1, Assoc
  <2>3. HM \o (dropped \o list) \o <<>> = HM \o (dropped \o list)
    <3>1. HM \o (dropped \o list) \in Seq(Messages)
      BY <1>1, <2>1, ConcatProperties
    <3> HIDE DEF HM
    <3> QED BY <3>1, ConcatEmptySeq
  <2>4. accepted' = handled' \o msg' \o dropped' \o list'
    BY <1>2, <1>7, <2>2, <2>3 DEF FlushList
  <2> QED BY <1>7, <2>4 DEF OrderInv, EachMessageOnce, BeforeClear
<1>8. CASE Flush \/ QDestroy
  BY <1>7, <1>8 DEF Flush, QDestroy, BeforeClear
<1>9. CASE Unblock \/ Spurious
  BY <1>9 DEF Unblock, Wake, Spurious, OrderInv, EachMessageOnce, BeforeClear
<1>10. CASE Owner
  <2>1. CASE DeleteThis
    BY <1>7, <2>1 DEF DeleteThis, SharedInv, BeforeClear
  <2>2. CASE DeleteThread \/ Stop \/ Join \/ OwnerBye
    BY <2>2 DEF DeleteThread, Stop, Join, OwnerBye, OrderInv, EachMessageOnce, BeforeClear
  <2> QED BY <1>10, <2>1, <2>2 DEF Owner
<1>11. CASE UNCHANGED vars
  BY <1>11 DEF vars, OrderInv, EachMessageOnce, BeforeClear
<1> QED BY <1>3, <1>4, <1>5, <1>6, <1>8, <1>9, <1>10, <1>11 DEF Next, Thread, Quiescent

(* Messages stay in order as long as anything runs.                         *)
LEMMA Orders == Spec => []OrderInv
<1>1. Init => OrderInv
  <2> SUFFICES ASSUME Init PROVE OrderInv
    OBVIOUS
  <2>1. <<>> \o <<>> = <<>>
    BY EmptySeq, ConcatEmptySeq
  <2> QED BY <2>1 DEF Init, OrderInv, EachMessageOnce
<1>2. OrderInv /\ TypeOK /\ LifeInv /\ [Next]_vars => OrderInv'
  <2>1. TypeOK => DataOK
    BY DEF TypeOK, DataOK
  <2> QED BY <2>1, Order DEF LifeInv
<1> QED BY <1>1, <1>2, TypeCorrect, Life, PTL DEF Spec

(* Every message msg_q_snd accepts is in exactly one place, in the order in *)
(* which it was accepted: handled, being handled, dropped or in the list.   *)
THEOREM MessagesOnce == Spec => []EachMessageOnce
<1>1. OrderInv => EachMessageOnce
  BY DEF OrderInv
<1> QED BY <1>1, Orders, PTL
----------------------------------------------------------------------------
(* The task implements OrderedTask.  Its owner has closed it when the queue *)
(* has been unblocked, and only then does the thread leave its loop.        *)

CloseInv ==
  /\ unblocked => opc # "idle"
  /\ taskAlive /\ opc # "idle" => unblocked
  /\ ~mRunnable /\ pc # "none" => opc # "idle"
  /\ pc \in {"clear", "flush", "qdestroy"} => opc # "idle"

(* Only msg_q_unblock closes, and only the deletion of the task opens again. *)
LEMMA Closes ==
  ASSUME FlagsOK, SharedInv, CloseInv, [Next]_vars
  PROVE  CloseInv'
<1> USE DEF queueVars, threadVars, CloseInv, FlagsOK
<1>1. ASSUME NEW s \in Senders, Sender(s) PROVE CloseInv'
  BY <1>1 DEF Sender, Send, SendNoMemory, SendRefused, Offer, Wake
<1>2. CASE Thread
  BY <1>2 DEF Thread, Enter, Loop, Receive, Resume, Take, Handle, Clear, Flush, QDestroy, ThreadBye
<1>3. CASE Unblock \/ Spurious \/ UNCHANGED vars
  BY <1>3 DEF Unblock, Spurious, Wake, vars
<1>4. CASE Owner
  BY <1>4 DEF Owner, DeleteThread, Stop, Join, OwnerBye, DeleteThis, SharedInv
<1> QED BY <1>1, <1>2, <1>3, <1>4 DEF Next, Quiescent

\* The messages in the task and what the abstract task sees of it.
Inbox == msg \o list
Seen == <<Inbox, handled, opc # "idle">>

(* sendMsg accepts a message, or the abstract task sees nothing.            *)
LEMMA SendAccepts ==
  ASSUME DataOK, CloseInv, NEW s \in Senders, Sender(s)
  PROVE  Ordered!Accept \/ UNCHANGED Seen
<1>1. CASE Send(s)
  <2> DEFINE m == <<s, sent[s] + 1>>
  <2>1. sent[s] \in 0 .. MaxSends /\ sent[s] < MaxSends
    BY <1>1 DEF Send, Offer, DataOK
  <2>2. m \in Messages
    BY <2>1, MsgTaskAssumption DEF MsgTaskAssumption, Messages
  <2>3. list' = Append(list, m) /\ opc = "idle" /\ UNCHANGED <<msg, handled, opc>>
    BY <1>1 DEF Send, Offer, CloseInv
  <2>4. msg \in Seq(Messages) /\ list \in Seq(Messages)
    BY DEF DataOK
  <2> HIDE DEF m
  <2>5. msg \o list' = Append(msg \o list, m)
    <3>1. <<m>> \in Seq(Messages) /\ list' = list \o <<m>>
      BY <2>2, <2>3, <2>4, AppendOne
    <3>2. msg \o list \in Seq(Messages)
      BY <2>4, ConcatProperties
    <3>3. (msg \o list) \o <<m>> = msg \o (list \o <<m>>)
      BY <2>4, <3>1, Assoc
    <3>4. Append(msg \o list, m) = (msg \o list) \o <<m>>
      BY <2>2, <3>2, AppendOne
    <3> QED BY <3>1, <3>3, <3>4
  <2> QED BY <2>2, <2>3, <2>5 DEF Ordered!Accept
<1>2. CASE SendNoMemory(s) \/ SendRefused(s)
  BY <1>2 DEF SendNoMemory, SendRefused, Offer, Seen, Inbox
<1> QED BY <1>1, <1>2 DEF Sender

(* Receiving a message moves it within the inbox.                           *)
LEMMA TakeIsUnseen ==
  ASSUME DataOK, OrderInv, pc \in {"rcv", "woken"}, Take, UNCHANGED <<handled, opc>>
  PROVE  UNCHANGED Seen
<1>1. msg = <<>>
  BY DEF OrderInv
<1>2. CASE list = <<>>
  BY <1>2 DEF Take, Seen, Inbox
<1>3. CASE list # <<>>
  <2>1. msg' = <<Head(list)>> /\ list' = Tail(list)
    BY <1>3 DEF Take
  <2>2. <<Head(list)>> \o Tail(list) = list
    BY <1>3 DEF DataOK
  <2>3. <<>> \o list = list
    BY ConcatEmptySeq DEF DataOK
  <2> QED BY <1>1, <2>1, <2>2, <2>3 DEF Seen, Inbox
<1> QED BY <1>2, <1>3

(* proc() completes the oldest message.                                     *)
LEMMA HandleCompletes ==
  ASSUME DataOK, Handle
  PROVE  Ordered!Complete \/ UNCHANGED Seen
<1>1. /\ list \in Seq(Messages) /\ handled \in Seq(Messages)
      /\ msg \in Seq(Messages) /\ Len(msg) =< 1
  BY DEF DataOK
<1>2. msg' = <<>> /\ handled' = handled \o msg /\ UNCHANGED <<list, opc>>
  BY DEF Handle, queueVars
<1>3. msg' \o list' = list
  BY <1>1, <1>2, ConcatEmptySeq
<1>4. CASE msg = <<>>
  <2>1. msg \o list = list /\ handled \o msg = handled
    BY <1>1, <1>4, ConcatEmptySeq
  <2> QED BY <1>2, <1>3, <2>1 DEF Seen, Inbox
<1>5. CASE msg # <<>>
  <2> DEFINE m == Head(msg)
  <2>1. msg = <<m>> /\ m \in Messages
    <3>1. Len(msg) # 0
      BY <1>1, <1>5, EmptySeq
    <3>2. Len(msg) = 1
      <4>1. Len(msg) \in Nat
        BY <1>1, LenProperties
      <4>2. Len(msg) =< 1
        BY <1>1
      <4> DEFINE n == Len(msg)
      <4> HIDE DEF n
      <4>3. n \in Nat /\ n =< 1 /\ n # 0
        BY <3>1, <4>1, <4>2 DEF n
      <4>4. n = 1
        BY <4>3
      <4> QED BY <4>4 DEF n
    <3>3. m \in Messages /\ m = msg[1]
      BY <1>1, <1>5, HeadTailProperties
    <3>4. <<msg[1]>> = msg
      BY <1>1, <3>2
    <3> QED BY <3>3, <3>4
  <2> HIDE DEF m
  <2>2. msg \o list # <<>> /\ Head(msg \o list) = m /\ Tail(msg \o list) = list
    BY <1>1, <2>1
  <2>3. handled' = Append(handled, m)
    BY <1>1, <1>2, <2>1, AppendOne
  <2> QED BY <1>2, <1>3, <2>2, <2>3 DEF Ordered!Complete
<1> QED BY <1>4, <1>5

(* ~MsgTask and msg_q_destroy discard what is left of a closed task.        *)
LEMMA FlushDiscards ==
  ASSUME DataOK, OrderInv, FlushList, pc # "proc", opc # "idle", opc' # "idle",
         UNCHANGED <<msg, handled>>
  PROVE  Ordered!Discard
<1>1. msg = <<>> /\ list' = <<>>
  BY DEF OrderInv, FlushList
<1>2. <<>> \o <<>> = <<>>
  BY EmptySeq, ConcatEmptySeq
<1> QED BY <1>1, <1>2 DEF Ordered!Discard

(* Every step of the task is a step of the abstract one, or is not seen.    *)
LEMMA StepImplements ==
  ASSUME DataOK, SharedInv, OrderInv, CloseInv, [Next]_vars
  PROVE  Ordered!Next \/ UNCHANGED Seen
<1> USE DEF queueVars, threadVars, history
<1>1. ASSUME NEW s \in Senders, Sender(s) PROVE Ordered!Next \/ UNCHANGED Seen
  BY <1>1, SendAccepts DEF Ordered!Next
<1>2. CASE Receive \/ Resume
  <2>1. CASE Take
    BY <1>2, <2>1, TakeIsUnseen DEF Receive, Resume
  <2>2. CASE ~Take
    BY <1>2, <2>2 DEF Receive, Resume, Seen, Inbox
  <2> QED BY <2>1, <2>2
<1>3. CASE Handle
  BY <1>3, HandleCompletes DEF Ordered!Next
<1>4. CASE Flush \/ QDestroy
  BY <1>4, FlushDiscards DEF Flush, QDestroy, CloseInv, Ordered!Next
<1>5. CASE DeleteThis
  BY <1>5, FlushDiscards DEF DeleteThis, SharedInv, Ordered!Next
<1>6. CASE Unblock
  BY <1>6 DEF Unblock, Ordered!Next, Ordered!Close
<1>7. CASE Enter \/ Loop \/ Clear \/ ThreadBye \/ Spurious \/ UNCHANGED vars
  BY <1>7 DEF Enter, Loop, Clear, ThreadBye, Spurious, vars, Seen, Inbox
<1>8. CASE DeleteThread \/ Stop \/ Join \/ OwnerBye
  BY <1>8 DEF DeleteThread, Stop, Join, OwnerBye, Seen, Inbox
<1> QED BY <1>1, <1>2, <1>3, <1>4, <1>5, <1>6, <1>7, <1>8 DEF Next, Thread, Owner, Quiescent

(* msg_q, LocThread and MsgTask together are an ordered executor: messages  *)
(* are handled one at a time, in the order in which they were accepted, and *)
(* discarded only after destroy() has begun.                                *)
THEOREM TaskIsOrdered == Spec => ImplementsOrderedTask
<1>1. Init => Ordered!Init
  <2> SUFFICES ASSUME Init PROVE Ordered!Init
    OBVIOUS
  <2>1. <<>> \o <<>> = <<>>
    BY EmptySeq, ConcatEmptySeq
  <2> QED BY <2>1 DEF Init, Ordered!Init
<1>2. Init => CloseInv
  BY DEF Init, CloseInv
<1>3. TypeOK /\ LifeInv /\ CloseInv /\ [Next]_vars => CloseInv'
  <2>1. TypeOK => FlagsOK
    BY DEF TypeOK, FlagsOK
  <2> QED BY <2>1, Closes DEF LifeInv
<1>4. TypeOK /\ LifeInv /\ OrderInv /\ CloseInv /\ [Next]_vars
      => [Ordered!Next]_<<msg \o list, handled, opc # "idle">>
  <2>1. TypeOK => DataOK
    BY DEF TypeOK, DataOK
  <2> QED BY <2>1, StepImplements DEF LifeInv, Seen, Inbox
<1> QED BY <1>1, <1>2, <1>3, <1>4, TypeCorrect, Life, Orders, PTL
        DEF Spec, ImplementsOrderedTask, Ordered!Spec
============================================================================
