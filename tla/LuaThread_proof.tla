---------------------------- MODULE LuaThread_proof ----------------------------
(***************************************************************************)
(* Theorems about LuaThread, for any number of threads and requests.       *)
(***************************************************************************)
EXTENDS LuaThread, TLAPS

-----------------------------------------------------------------------------
(* The inductive invariant, part by part.                                   *)

\* The steps of a thread that has set isRunning, with and without the last ones.
Serving == {"run", "loop", "handle"}
PastAnnounce == Serving \union {"exit", "dead"}

\* The array of gcList only grows, so that an index that was once inside it stays
\* inside; and it holds constructed threads only.
ListInv ==
  /\ size <= Len(elementData)
  /\ limit <= Len(elementData)
  /\ phase = "alive" => cursor = 0
  /\ \A i \in 1..Len(elementData) : pc[elementData[i]] # "absent"
  /\ \A p \in Proc : op[p].do = "regGc" =>
       op[p].at <= Len(elementData) + 1 /\ pc[op[p].obj] # "absent"

\* A thread is stopped only after it has set isRunning, and never sets it again.
RunInv ==
  /\ \A t \in Thread :
       /\ isRunning[t] => handler[t] /\ ~stopped[t] /\ pc[t] \in Serving
       /\ quitting[t] => stopped[t]
       /\ stopped[t] => pc[t] \in PastAnnounce
       /\ pc[t] = "announce" => handler[t]
  /\ \A p \in Proc : op[p].do \in {"quit", "gc"} => stopped[op[p].to]

\* After gc() a thread has stopped for good, or gc() came too early for it.
GcInv ==
  \A t \in Thread : mGc[t] => early[t] \/ (~isRunning[t] /\ pc[t] \in PastAnnounce)

\* A request is in one place at a time: with its sender, in the queue of the thread
\* it is for, or with that thread's Handler.
DeliveryInv ==
  /\ \A p \in Proc : op[p].do = "push" =>
       outcome[op[p].msg] = "sending" /\ dest[op[p].msg] = op[p].to
  /\ \A p, q \in Proc :
       op[p].do = "push" /\ op[q].do = "push" /\ op[p].msg = op[q].msg => p = q
  /\ QueuedOnce
  /\ \A t \in Thread : current[t] \in Msg =>
       outcome[current[t]] = "queued" /\ dest[current[t]] = t
  /\ LossNeedsQuit

\* While one process at a time is in gcList.add, size counts the array's elements.
AddInv ==
  /\ size = Len(elementData)
  /\ \A p \in Proc : op[p].do = "regGc" => op[p].at = size + 1
  /\ \A p, q \in Proc : op[p].do = "regGc" /\ op[q].do = "regGc" => p = q

Listed(t) == \E i \in 1..size : elementData[i] = t
BeingAdded(t) == \E p \in Proc : op[p].do = "regGc" /\ op[p].obj = t

\* While no two processes have been inside gcList.add at once, every registered
\* thread is in the list, and the loop of onDestroy has gc'd those behind its cursor.
RegisterInv ==
  ~raced =>
    /\ AddInv
    /\ \A t \in Thread \ FromFunc : pc[t] # "absent" => Listed(t) \/ BeingAdded(t)
    /\ phase \in {"destroying", "destroyed"} =>
         \A t \in due : \E i \in 1..limit : elementData[i] = t
    /\ phase = "destroying" =>
         \A i \in 1..limit : i <= cursor =>
           mGc[elementData[i]] \/ op[UI] = [do |-> "gc", to |-> elementData[i]]
    /\ phase = "destroyed" => \A i \in 1..limit : mGc[elementData[i]]

-----------------------------------------------------------------------------
(* Types.                                                                   *)

\* What a process in the middle of a call is busy with.
LEMMA OpFields ==
  ASSUME op \in [Proc -> Op], NEW p \in Proc
  PROVE  /\ op[p].do = "push" => op[p].to \in Thread /\ op[p].msg \in Msg
         /\ op[p].do \in {"quit", "gc"} => op[p].to \in Thread
         /\ op[p].do = "regGc" => op[p].obj \in Thread /\ op[p].at \in Nat \ {0}
BY DEF Op, Idle

\* The calls a process can be in the middle of.
LEMMA OpMakes ==
  /\ Idle \in Op
  /\ \A t \in Thread, m \in Msg : [do |-> "push", to |-> t, msg |-> m] \in Op
  /\ \A t \in Thread, what \in {"quit", "gc"} : [do |-> what, to |-> t] \in Op
  /\ \A t \in Thread, n \in Nat \ {0} : [do |-> "regGc", obj |-> t, at |-> n] \in Op
BY DEF Op

\* The test of isRunning in quit() keeps the types of what it may change.
LEMMA QuitTestType ==
  ASSUME TypeOK, NEW p \in Proc, NEW t \in Thread, NEW what \in {"quit", "gc"},
         QuitTest(p, t, what)
  PROVE  /\ isRunning' \in [Thread -> BOOLEAN]
         /\ stopped' \in [Thread -> BOOLEAN]
         /\ op' \in [Proc -> Op]
<1>1. [do |-> what, to |-> t] \in Op
  BY OpMakes
<1>2. CASE isRunning[t]
  <2>1. /\ isRunning' = [isRunning EXCEPT ![t] = FALSE]
        /\ stopped' = [stopped EXCEPT ![t] = TRUE]
        /\ op' = [op EXCEPT ![p] = [do |-> what, to |-> t]]
    BY <1>2 DEF QuitTest
  <2>2. op' \in [Proc -> Op]
    BY <1>1, <2>1 DEF TypeOK
  <2> QED BY <2>1, <2>2 DEF TypeOK
<1>3. CASE ~isRunning[t]
  BY <1>3 DEF TypeOK, QuitTest
<1> QED BY <1>2, <1>3

\* Every step keeps the types; that of the array needs ListInv.
LEMMA TypeStep == TypeOK /\ ListInv /\ [Next]_vars => TypeOK'
<1> SUFFICES ASSUME TypeOK, ListInv, [Next]_vars PROVE TypeOK'
  OBVIOUS
<1> USE LuaThreadAssumption
<1>1. ASSUME NEW p \in Proc, NEW t \in Thread, Construct(p, t) PROVE TypeOK'
  <2>1. size + 1 \in Nat \ {0}
    BY DEF TypeOK
  <2>2. [do |-> "regGc", obj |-> t, at |-> size + 1] \in Op
    BY <2>1, OpMakes
  <2>4. op' \in [Proc -> Op] /\ modCount' \in Nat
    <3>1. CASE t \in FromFunc
      BY <1>1, <3>1 DEF TypeOK, Construct
    <3>2. CASE t \notin FromFunc
      <4>1. op' = [op EXCEPT ![p] = [do |-> "regGc", obj |-> t, at |-> size + 1]]
        BY <1>1, <3>2 DEF Construct, NextSlot
      <4>2. modCount' = modCount + 1
        BY <1>1, <3>2 DEF Construct
      <4> QED BY <2>2, <4>1, <4>2 DEF TypeOK
    <3> QED BY <3>1, <3>2
  <2>3. raced' \in BOOLEAN
    BY <1>1 DEF TypeOK, Construct
  <2> QED BY <1>1, <2>4, <2>3 DEF TypeOK, Construct, looperVars, destroyVars, callVars
<1>2. ASSUME NEW p \in Proc, NEW t \in Thread, Start(p, t) PROVE TypeOK'
  BY <1>2 DEF TypeOK, Start, looperVars, listVars, destroyVars, callVars
<1>3. ASSUME NEW p \in Proc, NEW t \in Thread, BeginQuit(p, t) PROVE TypeOK'
  <2>1. UNCHANGED <<pc, mGc, looperVars, listVars, destroyVars, callVars, raced>>
    BY <1>3 DEF BeginQuit
  <2>2. QuitTest(p, t, "quit")
    BY <1>3 DEF BeginQuit
  <2> QED BY <2>1, <2>2, QuitTestType DEF TypeOK, looperVars, listVars, destroyVars, callVars
<1>4. ASSUME NEW p \in Proc, NEW t \in Thread, NEW m \in Msg, BeginPush(p, t, m) PROVE TypeOK'
  <2>3. [do |-> "push", to |-> t, msg |-> m] \in Op
    BY OpMakes
  <2>1. op' \in [Proc -> Op]
    BY <1>4, <2>3 DEF TypeOK, BeginPush
  <2>2. dest' \in [Msg -> Proc]
    BY <1>4 DEF TypeOK, BeginPush, Proc
  <2> QED BY <1>4, <2>1, <2>2 DEF TypeOK, BeginPush, looperVars, listVars, destroyVars
<1>5. ASSUME NEW p \in Proc, FinishRegGc(p) PROVE TypeOK'
  <2>1. op[p].obj \in Thread /\ op[p].at \in Nat \ {0} /\ op[p].at <= Len(elementData) + 1
    BY <1>5, OpFields DEF TypeOK, ListInv, FinishRegGc
  <2>2. elementData' \in Seq(Thread)
    BY <1>5, <2>1 DEF TypeOK, FinishRegGc
  <2> QED BY <1>5, <2>1, <2>2 DEF TypeOK, FinishRegGc, looperVars, destroyVars, callVars, Op
<1>6. ASSUME NEW p \in Proc, FinishPush(p) PROVE TypeOK'
  <2>1. op[p].to \in Thread /\ op[p].msg \in Msg
    BY <1>6, OpFields DEF TypeOK, FinishPush
  <2>2. queue' \in [Thread -> Seq(Msg)]
    <3>1. queue[op[p].to] \in Seq(Msg)
      BY <2>1 DEF TypeOK
    <3>2. Append(queue[op[p].to], op[p].msg) \in Seq(Msg)
      BY <2>1, <3>1
    <3>3. queue' = queue \/ queue' = [queue EXCEPT ![op[p].to] = Append(@, op[p].msg)]
      BY <1>6 DEF FinishPush, Enqueue
    <3> QED BY <3>2, <3>3 DEF TypeOK
  <2>3. op' \in [Proc -> Op]
    BY <1>6, OpMakes DEF TypeOK, FinishPush
  <2>4. outcome' \in [Msg -> {"unsent", "refused", "sending", "queued", "handled", "lost"}]
    BY <1>6, <2>1 DEF TypeOK, FinishPush
  <2> QED BY <1>6, <2>2, <2>3, <2>4 DEF TypeOK, FinishPush, listVars, destroyVars
<1>7. ASSUME NEW p \in Proc, FinishQuit(p) PROVE TypeOK'
  <2>1. op[p].to \in Thread
    BY <1>7, OpFields DEF TypeOK, FinishQuit
  <2>2. outcome' \in [Msg -> {"unsent", "refused", "sending", "queued", "handled", "lost"}]
    BY <1>7 DEF TypeOK, FinishQuit
  <2> QED BY <1>7, <2>1, <2>2 DEF TypeOK, FinishQuit, LooperOf, listVars, destroyVars, Op
<1>22. ASSUME NEW p \in Proc, MissHandler(p) PROVE TypeOK'
  <2>1. op' \in [Proc -> Op]
    BY <1>22, OpMakes DEF TypeOK, MissHandler
  <2>2. outcome' \in [Msg -> {"unsent", "refused", "sending", "queued", "handled", "lost"}]
    BY <1>22 DEF TypeOK, MissHandler
  <2>3. failed' \in [Thread -> BOOLEAN]
    BY <1>22, OpFields DEF TypeOK, MissHandler
  <2> QED BY <1>22, <2>1, <2>2, <2>3 DEF TypeOK, MissHandler, looperVars, listVars
<1>8. ASSUME NEW t \in Thread, InitFails(t) PROVE TypeOK'
  BY <1>8 DEF TypeOK, InitFails, looperVars, listVars, destroyVars, callVars
<1>9. ASSUME NEW t \in Thread, ScriptEnds(t) PROVE TypeOK'
  <2>1. /\ isRunning' \in [Thread -> BOOLEAN]
        /\ stopped' \in [Thread -> BOOLEAN]
        /\ op' \in [Proc -> Op]
    BY <1>9, QuitTestType DEF TypeOK, ScriptEnds, Proc
  <2> QED BY <1>9, <2>1 DEF TypeOK, ScriptEnds, AfterScript, looperVars, listVars, destroyVars, callVars
<1>10. ASSUME NEW t \in Thread, Prepare(t) PROVE TypeOK'
  BY <1>10 DEF TypeOK, Prepare, listVars, destroyVars, callVars
<1>11. ASSUME NEW t \in Thread, Announce(t) PROVE TypeOK'
  BY <1>11 DEF TypeOK, Announce, looperVars, listVars, destroyVars, callVars
<1>12. ASSUME NEW t \in Thread, RunEnds(t) PROVE TypeOK'
  BY <1>12 DEF TypeOK, RunEnds, looperVars, listVars, destroyVars, callVars
<1>13. ASSUME NEW t \in Thread, Dispatch(t) PROVE TypeOK'
  BY <1>13 DEF TypeOK, Dispatch, listVars, destroyVars, callVars
<1>14. ASSUME NEW t \in Thread, HandleEnds(t) PROVE TypeOK'
  <2>1. /\ isRunning' \in [Thread -> BOOLEAN]
        /\ stopped' \in [Thread -> BOOLEAN]
        /\ op' \in [Proc -> Op]
    BY <1>14, QuitTestType DEF TypeOK, HandleEnds, Proc
  <2> QED BY <1>14, <2>1 DEF TypeOK, HandleEnds, listVars, destroyVars
<1>15. ASSUME NEW t \in Thread, LoopEnds(t) PROVE TypeOK'
  BY <1>15 DEF TypeOK, LoopEnds, looperVars, listVars, destroyVars, callVars
<1>16. ASSUME NEW t \in Thread, Exit(t) PROVE TypeOK'
  BY <1>16 DEF TypeOK, Exit, looperVars, listVars, destroyVars, callVars
<1>17. CASE BeginDestroy
  BY <1>17 DEF TypeOK, BeginDestroy, looperVars, listVars, callVars
<1>18. CASE NextFails
  BY <1>18 DEF TypeOK, NextFails, looperVars, listVars, callVars
<1>19. CASE GcNext
  <2> DEFINE t == elementData[cursor + 1]
  <2>1. t \in Thread
    BY <1>19 DEF TypeOK, ListInv, GcNext, HasNext
  <2>2. QuitTest(UI, t, "gc")
    BY <1>19 DEF GcNext
  <2>3. /\ isRunning' \in [Thread -> BOOLEAN]
        /\ stopped' \in [Thread -> BOOLEAN]
        /\ op' \in [Proc -> Op]
    BY <2>1, <2>2, QuitTestType DEF Proc
  <2>4. mGc' \in [Thread -> BOOLEAN] /\ early' \in [Thread -> BOOLEAN]
    BY <1>19, <2>1 DEF TypeOK, GcNext
  <2> QED BY <1>19, <2>3, <2>4 DEF TypeOK, GcNext, looperVars, listVars, callVars
<1>20. CASE EndDestroy
  BY <1>20 DEF TypeOK, EndDestroy, looperVars, listVars, callVars
<1>21. CASE UNCHANGED vars
  BY <1>21 DEF TypeOK, vars, looperVars, listVars, destroyVars, callVars
<1> QED
  BY <1>1, <1>2, <1>3, <1>4, <1>5, <1>6, <1>7, <1>8, <1>9, <1>10, <1>11, <1>12, <1>13, <1>14,
     <1>15, <1>16, <1>17, <1>18, <1>19, <1>20, <1>21, <1>22
  DEF Next, Request, Finish, Run, Destroy

-----------------------------------------------------------------------------
(* What one step can do to a thread, its Looper and the processes.          *)

\* A thread is stopped by whoever calls quit() on it, or gc() from onDestroy; no
\* other step stops one, or makes a process quit one.
LEMMA QuitStep ==
  ASSUME TypeOK, ListInv, [Next]_vars
  PROVE  \/ /\ UNCHANGED stopped
            /\ \A t \in Thread : isRunning'[t] => isRunning[t] \/ Announce(t)
            /\ \A q \in Proc : op'[q].do \in {"quit", "gc"} => op'[q] = op[q]
         \/ \E p \in Proc, t \in Thread : QuitTest(p, t, "quit")
         \/ GcNext /\ elementData[cursor + 1] \in Thread
            /\ QuitTest(UI, elementData[cursor + 1], "gc")
<1>1. CASE \E p \in Proc, t \in Thread : BeginQuit(p, t)
  BY <1>1 DEF BeginQuit
<1>2. CASE GcNext
  <2>1. elementData[cursor + 1] \in Thread
    BY <1>2 DEF GcNext, TypeOK, ListInv, HasNext
  <2> QED BY <1>2, <2>1 DEF GcNext
<1>3. CASE \E t \in Thread : ScriptEnds(t)
  BY <1>3 DEF ScriptEnds, Proc
<1>4. CASE \E t \in Thread : HandleEnds(t)
  BY <1>4 DEF HandleEnds, Proc
<1>5. CASE \E p \in Proc, t \in Thread : Construct(p, t)
  BY <1>5 DEF TypeOK, Construct
<1>6. CASE \E p \in Proc, t \in Thread, m \in Msg : BeginPush(p, t, m)
  BY <1>6 DEF TypeOK, BeginPush
<1>7. CASE \E p \in Proc : Finish(p)
  BY <1>7 DEF TypeOK, Finish, FinishRegGc, FinishPush, FinishQuit, MissHandler, Idle
<1>8. CASE \E t \in Thread : Announce(t) \/ Exit(t)
  BY <1>8 DEF TypeOK, Announce, Exit
<1>9. CASE UNCHANGED <<isRunning, stopped, op>>
  BY <1>9
<1> QED
  BY <1>1, <1>2, <1>3, <1>4, <1>5, <1>6, <1>7, <1>8, <1>9
  DEF Next, Request, Run, Destroy, vars, Start, InitFails, Prepare, RunEnds, Dispatch, LoopEnds,
      BeginDestroy, NextFails, EndDestroy

\* isRunning is set by Announce only, and cleared when the thread is stopped.
LEMMA RunningStep ==
  ASSUME TypeOK, ListInv, [Next]_vars, NEW t \in Thread
  PROVE  /\ isRunning'[t] => isRunning[t] \/ Announce(t)
         /\ stopped[t] => stopped'[t]
         /\ stopped'[t] => stopped[t] \/ (isRunning[t] /\ ~isRunning'[t])
<1>1. CASE /\ UNCHANGED stopped
           /\ \A u \in Thread : isRunning'[u] => isRunning[u] \/ Announce(u)
  BY <1>1
<1>2. ASSUME NEW p \in Proc, NEW u \in Thread, NEW what \in {"quit", "gc"}, QuitTest(p, u, what)
      PROVE  /\ isRunning'[t] => isRunning[t]
             /\ stopped[t] => stopped'[t]
             /\ stopped'[t] => stopped[t] \/ (isRunning[t] /\ ~isRunning'[t])
  <2>1. CASE isRunning[u]
    <3>1. isRunning' = [isRunning EXCEPT ![u] = FALSE] /\ stopped' = [stopped EXCEPT ![u] = TRUE]
      BY <1>2, <2>1 DEF QuitTest
    <3> QED BY <2>1, <3>1 DEF TypeOK
  <2>2. CASE ~isRunning[u]
    BY <1>2, <2>2 DEF QuitTest
  <2> QED BY <2>1, <2>2
<1>3. UI \in Proc
  BY DEF Proc
<1> QED BY <1>1, <1>2, <1>3, QuitStep

\* A Handler stays, a Looper quits only when a process was about to make it quit.
LEMMA LooperStep ==
  ASSUME TypeOK, ListInv, [Next]_vars, NEW t \in Thread
  PROVE  /\ handler[t] => handler'[t]
         /\ quitting'[t] => quitting[t] \/ \E p \in Proc : op[p].do \in {"quit", "gc"} /\ op[p].to = t
         /\ pc[t] # "announce" /\ pc'[t] = "announce" => handler'[t]
<1>1. CASE \E p \in Proc : FinishQuit(p)
  BY <1>1 DEF TypeOK, FinishQuit, LooperOf
<1>2. CASE \E u \in Thread : Prepare(u)
  BY <1>2 DEF TypeOK, Prepare
<1>4. CASE \E p \in Proc, u \in Thread : Construct(p, u) \/ Start(p, u)
  BY <1>4 DEF TypeOK, Construct, Start, looperVars
<1>5. CASE \E u \in Thread : InitFails(u) \/ ScriptEnds(u) \/ Announce(u) \/ RunEnds(u) \/ Dispatch(u)
                              \/ HandleEnds(u) \/ LoopEnds(u) \/ Exit(u)
  BY <1>5 DEF TypeOK, InitFails, ScriptEnds, AfterScript, Announce, RunEnds, Dispatch, HandleEnds, LoopEnds, Exit, looperVars
<1>3. CASE UNCHANGED <<pc, handler, quitting>>
  BY <1>3
<1> QED
  BY <1>1, <1>2, <1>3, <1>4, <1>5
  DEF Next, Request, Finish, Run, Destroy, vars, looperVars, BeginQuit, BeginPush, FinishRegGc, FinishPush,
      MissHandler, BeginDestroy, NextFails, GcNext, EndDestroy

\* A thread goes forward in run(), and leaves the steps in which it serves calls
\* when its Looper quits.
LEMMA PcStep ==
  ASSUME TypeOK, [Next]_vars, NEW t \in Thread
  PROVE  /\ pc[t] # "absent" => pc'[t] # "absent"
         /\ pc[t] \in PastAnnounce => pc'[t] \in PastAnnounce
         /\ pc[t] \in Serving => pc'[t] \in Serving \/ quitting[t]
<1>1. CASE \E p \in Proc, u \in Thread : Construct(p, u) \/ Start(p, u)
  BY <1>1 DEF TypeOK, PastAnnounce, Serving, Construct, Start
<1>2. CASE \E u \in Thread : InitFails(u) \/ ScriptEnds(u) \/ Prepare(u) \/ Announce(u)
  BY <1>2 DEF TypeOK, PastAnnounce, Serving, AfterScript, InitFails, ScriptEnds, Prepare, Announce
<1>3. CASE \E u \in Thread : RunEnds(u) \/ Dispatch(u) \/ HandleEnds(u) \/ LoopEnds(u) \/ Exit(u)
  BY <1>3 DEF TypeOK, PastAnnounce, Serving, RunEnds, Dispatch, HandleEnds, LoopEnds, Exit
<1>4. CASE UNCHANGED pc
  BY <1>4
<1> QED
  BY <1>1, <1>2, <1>3, <1>4
  DEF Next, Request, Finish, Run, Destroy, vars, BeginQuit, BeginPush, FinishRegGc, FinishPush,
      FinishQuit, MissHandler, BeginDestroy, NextFails, GcNext, EndDestroy

\* Where a call that a process is in the middle of comes from.
LEMMA OpStep ==
  ASSUME TypeOK, ListInv, [Next]_vars, NEW q \in Proc
  PROVE  /\ op'[q].do \in {"quit", "gc"} =>
              op'[q] = op[q] \/ (op'[q].to \in Thread /\ stopped'[op'[q].to])
         /\ op'[q].do = "regGc" =>
              \/ op'[q] = op[q]
              \/ \E t \in Thread : Construct(q, t) /\ op'[q] = [do |-> "regGc", obj |-> t, at |-> size + 1]
         /\ op'[q].do = "push" =>
              \/ op'[q] = op[q]
              \/ \E t \in Thread, m \in Msg :
                   BeginPush(q, t, m) /\ op'[q] = [do |-> "push", to |-> t, msg |-> m]
<1>1. op'[q].do \in {"quit", "gc"} =>
        op'[q] = op[q] \/ (op'[q].to \in Thread /\ stopped'[op'[q].to])
  BY QuitStep DEF TypeOK, QuitTest
<1>2. CASE \E p \in Proc, t \in Thread, what \in {"quit", "gc"} : QuitTest(p, t, what)
  <2>1. op'[q] = op[q] \/ op'[q].do \in {"quit", "gc"}
    BY <1>2 DEF TypeOK, QuitTest
  <2> QED BY <1>1, <2>1
<1>3. CASE \E p \in Proc, t \in Thread : Construct(p, t)
  <2>1. PICK p \in Proc, t \in Thread : Construct(p, t)
    BY <1>3
  <2>2. \/ op'[q] = op[q]
        \/ q = p /\ op'[q] = [do |-> "regGc", obj |-> t, at |-> size + 1]
    BY <2>1 DEF TypeOK, Construct, NextSlot
  <2> QED BY <1>1, <2>1, <2>2
<1>4. CASE \E p \in Proc, t \in Thread, m \in Msg : BeginPush(p, t, m)
  <2>1. PICK p \in Proc, t \in Thread, m \in Msg : BeginPush(p, t, m)
    BY <1>4
  <2>2. \/ op'[q] = op[q]
        \/ q = p /\ op'[q] = [do |-> "push", to |-> t, msg |-> m]
    BY <2>1 DEF TypeOK, BeginPush
  <2> QED BY <1>1, <2>1, <2>2
<1>5. CASE \E p \in Proc : Finish(p)
  BY <1>1, <1>5 DEF TypeOK, Finish, FinishRegGc, FinishPush, FinishQuit, MissHandler, Idle
<1>6. CASE UNCHANGED op
  BY <1>1, <1>6
<1>7. CASE GcNext
  <2>1. elementData[cursor + 1] \in Thread /\ QuitTest(UI, elementData[cursor + 1], "gc")
    BY <1>7 DEF GcNext, TypeOK, ListInv, HasNext
  <2> QED BY <1>2, <2>1 DEF Proc
<1>8. CASE \E t \in Thread : ScriptEnds(t) \/ HandleEnds(t)
  BY <1>2, <1>6, <1>8 DEF ScriptEnds, HandleEnds, Proc
<1>9. CASE \E p \in Proc, t \in Thread : BeginQuit(p, t)
  BY <1>2, <1>9 DEF BeginQuit
<1> QED
  BY <1>3, <1>4, <1>5, <1>6, <1>7, <1>8, <1>9
  DEF Next, Request, Run, Destroy, vars, Start, InitFails, Prepare, Announce, RunEnds, Dispatch,
      LoopEnds, Exit, BeginDestroy, NextFails, EndDestroy

\* gcList changes by the second half of its add only, which never shortens the array.
LEMMA ArrayStep ==
  ASSUME TypeOK, ListInv, [Next]_vars
  PROVE  /\ Len(elementData) <= Len(elementData')
         /\ size' <= Len(elementData')
         /\ \A i \in 1..Len(elementData') :
              \/ i \in 1..Len(elementData) /\ elementData'[i] = elementData[i]
              \/ \E p \in Proc : op[p].do = "regGc" /\ elementData'[i] = op[p].obj
<1>1. CASE \E p \in Proc : FinishRegGc(p)
  <2>1. PICK p \in Proc : FinishRegGc(p)
    BY <1>1
  <2>2. op[p].do = "regGc" /\ op[p].at \in 1..(Len(elementData) + 1) /\ op[p].obj \in Thread
    BY <2>1, OpFields DEF TypeOK, ListInv, FinishRegGc
  <2>3. CASE op[p].at \in 1..Len(elementData)
    BY <2>1, <2>2, <2>3 DEF TypeOK, ListInv, FinishRegGc
  <2>4. CASE op[p].at = Len(elementData) + 1
    BY <2>1, <2>2, <2>4 DEF TypeOK, ListInv, FinishRegGc
  <2> QED BY <2>2, <2>3, <2>4
<1>2. CASE UNCHANGED <<elementData, size>>
  BY <1>2 DEF TypeOK, ListInv
<1> QED
  BY <1>1, <1>2
  DEF Next, Request, Finish, Run, Destroy, vars, listVars, Construct, Start, BeginQuit, BeginPush,
      FinishPush, FinishQuit, MissHandler, InitFails, ScriptEnds, Prepare, Announce, RunEnds, Dispatch,
      HandleEnds, LoopEnds, Exit, BeginDestroy, NextFails, GcNext, EndDestroy

-----------------------------------------------------------------------------
(* Each part of the invariant is preserved.                                 *)

\* ListInv survives every step.
LEMMA ListStep ==
  ASSUME TypeOK, TypeOK', ListInv, [Next]_vars
  PROVE  ListInv'
<1> USE ArrayStep
<1>0. Len(elementData) \in Nat /\ Len(elementData') \in Nat
  BY DEF TypeOK
<1>1. \A p \in Proc : op'[p].do = "regGc" =>
        op'[p].at <= Len(elementData') + 1 /\ pc'[op'[p].obj] # "absent"
  <2> SUFFICES ASSUME NEW p \in Proc, op'[p].do = "regGc"
               PROVE  op'[p].at <= Len(elementData') + 1 /\ pc'[op'[p].obj] # "absent"
    OBVIOUS
  <2>1. CASE op'[p] = op[p]
    <3>1. op[p].at \in Nat /\ op[p].obj \in Thread
      BY <2>1, OpFields DEF TypeOK
    <3>2. op[p].at <= Len(elementData) + 1 /\ pc[op[p].obj] # "absent"
      BY <2>1 DEF ListInv
    <3>3. pc'[op[p].obj] # "absent"
      BY <3>1, <3>2, PcStep
    <3> QED BY <1>0, <2>1, <3>1, <3>2, <3>3
  <2>2. CASE \E t \in Thread :
               Construct(p, t) /\ op'[p] = [do |-> "regGc", obj |-> t, at |-> size + 1]
    <3>1. PICK t \in Thread :
               Construct(p, t) /\ op'[p] = [do |-> "regGc", obj |-> t, at |-> size + 1]
      BY <2>2
    <3>2. pc'[t] = "new" /\ op'[p].obj = t /\ op'[p].at = size + 1
      BY <3>1 DEF TypeOK, Construct
    <3>3. size <= Len(elementData) /\ size \in Nat
      BY DEF TypeOK, ListInv
    <3>4. pc'[op'[p].obj] # "absent"
      BY <3>2
    <3> QED BY <1>0, <3>2, <3>3, <3>4
  <2> QED BY <2>1, <2>2, OpStep
<1>2. \A i \in 1..Len(elementData') : pc'[elementData'[i]] # "absent"
  <2> SUFFICES ASSUME NEW i \in 1..Len(elementData') PROVE pc'[elementData'[i]] # "absent"
    OBVIOUS
  <2>1. CASE i \in 1..Len(elementData) /\ elementData'[i] = elementData[i]
    <3>1. elementData[i] \in Thread
      BY <2>1 DEF TypeOK
    <3>2. pc[elementData[i]] # "absent"
      BY <2>1 DEF ListInv
    <3> QED BY <2>1, <3>1, <3>2, PcStep
  <2>2. CASE \E p \in Proc : op[p].do = "regGc" /\ elementData'[i] = op[p].obj
    <3>1. PICK p \in Proc : op[p].do = "regGc" /\ elementData'[i] = op[p].obj
      BY <2>2
    <3>2. op[p].obj \in Thread
      BY <3>1, OpFields DEF TypeOK
    <3>3. pc[op[p].obj] # "absent"
      BY <3>1 DEF ListInv
    <3> QED BY <3>1, <3>2, <3>3, PcStep
  <2> QED BY <2>1, <2>2
<1>3. limit' <= Len(elementData') /\ (phase' = "alive" => cursor' = 0)
  <2>1. CASE BeginDestroy
    BY <2>1 DEF TypeOK, ListInv, BeginDestroy, listVars
  <2>2. CASE Destroy
    <3>1. limit' = limit /\ phase' # "alive"
      BY <2>2 DEF Destroy, GcNext, NextFails, EndDestroy
    <3>2. limit \in Nat /\ limit <= Len(elementData)
      BY DEF TypeOK, ListInv
    <3> QED BY <1>0, <3>1, <3>2
  <2>3. CASE UNCHANGED <<limit, cursor>> /\ (phase' = phase \/ phase' = "crashed")
    <3>1. limit \in Nat /\ limit <= Len(elementData) /\ (phase = "alive" => cursor = 0)
      BY DEF TypeOK, ListInv
    <3> QED BY <1>0, <2>3, <3>1
  <2>4. CASE \E p \in Proc : MissHandler(p)
    <3>1. UNCHANGED <<limit, cursor>> /\ (phase' = phase \/ phase' = "crashed")
      BY <2>4 DEF MissHandler
    <3> QED BY <2>3, <3>1
  <2>5. CASE UNCHANGED <<limit, phase, cursor>>
    BY <2>3, <2>5
  <2>6. CASE (\E p \in Proc : Request(p)) \/ (\E t \in Thread : Run(t)) \/ UNCHANGED vars
    BY <2>5, <2>6
    DEF Request, Run, vars, destroyVars, Construct, Start, BeginQuit, BeginPush, InitFails, ScriptEnds,
        Prepare, Announce, RunEnds, Dispatch, HandleEnds, LoopEnds, Exit
  <2>7. CASE \E p \in Proc : FinishRegGc(p) \/ FinishPush(p) \/ FinishQuit(p)
    BY <2>5, <2>7 DEF FinishRegGc, FinishPush, FinishQuit, destroyVars
  <2> QED
    BY <2>1, <2>2, <2>4, <2>6, <2>7 DEF Next, Finish
<1> QED BY <1>1, <1>2, <1>3 DEF ListInv

\* RunInv survives every step.
LEMMA RunStep ==
  ASSUME TypeOK, ListInv, RunInv, [Next]_vars
  PROVE  RunInv'
<1>1. ASSUME NEW t \in Thread
      PROVE  /\ isRunning'[t] => handler'[t] /\ ~stopped'[t] /\ pc'[t] \in Serving
             /\ quitting'[t] => stopped'[t]
             /\ stopped'[t] => pc'[t] \in PastAnnounce
             /\ pc'[t] = "announce" => handler'[t]
  <2>1. CASE Announce(t)
    BY <2>1 DEF TypeOK, RunInv, Announce, looperVars, Serving, PastAnnounce
  <2>2. isRunning[t] /\ isRunning'[t] => handler'[t] /\ ~stopped'[t] /\ pc'[t] \in Serving
    BY RunningStep, LooperStep, PcStep DEF RunInv
  <2>3. quitting'[t] => stopped'[t]
    BY RunningStep, LooperStep DEF RunInv
  <2>4. stopped'[t] => pc'[t] \in PastAnnounce
    BY RunningStep, PcStep DEF RunInv, PastAnnounce
  <2>5. pc'[t] = "announce" => handler'[t]
    BY LooperStep DEF RunInv
  <2>6. isRunning'[t] => isRunning[t] \/ Announce(t)
    BY RunningStep
  <2> QED BY <2>1, <2>2, <2>3, <2>4, <2>5, <2>6
<1>2. ASSUME NEW p \in Proc, op'[p].do \in {"quit", "gc"}
      PROVE  stopped'[op'[p].to]
  BY <1>2, OpStep, OpFields, RunningStep DEF TypeOK, RunInv
<1> QED BY <1>1, <1>2 DEF RunInv

\* GcInv survives every step.
LEMMA GcStep ==
  ASSUME TypeOK, ListInv, RunInv, GcInv, [Next]_vars
  PROVE  GcInv'
<1> SUFFICES ASSUME NEW t \in Thread, mGc'[t]
             PROVE  early'[t] \/ (~isRunning'[t] /\ pc'[t] \in PastAnnounce)
  BY DEF GcInv
<1>1. ~isRunning[t] /\ pc[t] \in PastAnnounce => ~isRunning'[t] /\ pc'[t] \in PastAnnounce
  BY RunningStep, PcStep DEF Announce, PastAnnounce, Serving
<1>2. CASE GcNext
  <2>0. cursor + 1 \in 1..Len(elementData)
    BY <1>2 DEF TypeOK, ListInv, GcNext, HasNext
  <2>1. elementData[cursor + 1] \in Thread /\ pc[elementData[cursor + 1]] # "absent"
    BY <2>0 DEF TypeOK, ListInv
  <2>2. mGc[t] \/ (t = elementData[cursor + 1] /\ ~isRunning[t])
    BY <1>2, <2>1 DEF TypeOK, GcNext
  <2>3. early[t] \/ (t = elementData[cursor + 1] /\ pc[t] \in BeforeRunning) => early'[t]
    BY <1>2, <2>1 DEF TypeOK, GcNext
  <2>4. pc[t] \in {"absent"} \union BeforeRunning \union PastAnnounce
    BY DEF TypeOK, BeforeRunning, PastAnnounce, Serving
  <2> QED BY <1>1, <2>1, <2>2, <2>3, <2>4 DEF GcInv
<1>3. CASE \E p \in Proc : FinishQuit(p)
  <2>1. PICK p \in Proc : FinishQuit(p)
    BY <1>3
  <2>2. mGc[t] \/ t = op[p].to
    BY <2>1, OpFields DEF TypeOK, FinishQuit
  <2>3. t = op[p].to => ~isRunning[t] /\ pc[t] \in PastAnnounce
    BY <2>1 DEF RunInv, FinishQuit
  <2>4. early' = early
    BY <2>1 DEF FinishQuit, destroyVars
  <2> QED BY <1>1, <2>2, <2>3, <2>4 DEF GcInv
<1>4. CASE UNCHANGED <<mGc, early>>
  BY <1>1, <1>4 DEF GcInv
<1>5. CASE (\E p \in Proc : Request(p)) \/ (\E u \in Thread : Run(u)) \/ UNCHANGED vars
  BY <1>4, <1>5
  DEF Request, Run, vars, destroyVars, Construct, Start, BeginQuit, BeginPush, InitFails, ScriptEnds,
      Prepare, Announce, RunEnds, Dispatch, HandleEnds, LoopEnds, Exit
<1>6. CASE \E p \in Proc : FinishRegGc(p) \/ FinishPush(p) \/ MissHandler(p)
  BY <1>4, <1>6 DEF FinishRegGc, FinishPush, MissHandler, destroyVars
<1>7. CASE BeginDestroy \/ NextFails \/ EndDestroy
  BY <1>4, <1>7 DEF BeginDestroy, NextFails, EndDestroy
<1> QED
  BY <1>2, <1>3, <1>5, <1>6, <1>7 DEF Next, Finish, Destroy

\* The parts of DeliveryInv, for one process or pair of them, and for one thread.
SendingInv ==
  /\ \A p \in Proc : op[p].do = "push" =>
       outcome[op[p].msg] = "sending" /\ dest[op[p].msg] = op[p].to
  /\ \A p, q \in Proc :
       op[p].do = "push" /\ op[q].do = "push" /\ op[p].msg = op[q].msg => p = q

HandlingInv ==
  \A t \in Thread : current[t] \in Msg =>
    outcome[current[t]] = "queued" /\ dest[current[t]] = t

\* A step that makes no message move, and no process send one, keeps DeliveryInv.
LEMMA DeliveryKept ==
  ASSUME TypeOK, ListInv, DeliveryInv, [Next]_vars,
         UNCHANGED <<outcome, dest, queue, current>>
  PROVE  DeliveryInv'
<1>1. \A p \in Proc : op'[p].do = "push" => op'[p] = op[p]
  <2> SUFFICES ASSUME NEW p \in Proc, op'[p].do = "push" PROVE op'[p] = op[p]
    OBVIOUS
  <2>1. ASSUME NEW t \in Thread, NEW m \in Msg PROVE ~BeginPush(p, t, m)
    BY DEF TypeOK, BeginPush
  <2> QED BY <2>1, OpStep
<1>2. LossNeedsQuit'
  BY RunningStep DEF DeliveryInv, LossNeedsQuit
<1>3. QueuedOnce'
  BY DEF DeliveryInv, QueuedOnce
<1> QED BY <1>1, <1>2, <1>3 DEF DeliveryInv

\* push() takes an unsent message, which is therefore nowhere else.
LEMMA DeliveryBeginPush ==
  ASSUME TypeOK, TypeOK', DeliveryInv, NEW p \in Proc, NEW t \in Thread, NEW m \in Msg,
         BeginPush(p, t, m)
  PROVE  DeliveryInv'
<1>1. /\ outcome[m] = "unsent"
      /\ dest' = [dest EXCEPT ![m] = t]
      /\ \A n \in Msg : n # m => outcome'[n] = outcome[n] /\ dest'[n] = dest[n]
      /\ outcome'[m] \in {"sending", "refused"}
      /\ queue' = queue /\ current' = current /\ stopped' = stopped
  BY DEF TypeOK, BeginPush, looperVars
<1>2. \A q \in Proc : op'[q].do = "push" =>
        \/ op'[q] = op[q] /\ op[q].msg # m
        \/ q = p /\ op'[q].msg = m /\ op'[q].to = t /\ outcome'[m] = "sending"
  <2>1. \A q \in Proc : op[q].do = "push" => op[q].msg # m
    BY <1>1 DEF DeliveryInv
  <2>2. CASE isRunning[t]
    BY <2>1, <2>2 DEF TypeOK, BeginPush
  <2>3. CASE ~isRunning[t]
    BY <2>1, <2>3 DEF TypeOK, BeginPush
  <2> QED BY <2>2, <2>3
<1>3. SendingInv'
  <2>1. ASSUME NEW q \in Proc, op'[q].do = "push"
        PROVE  outcome'[op'[q].msg] = "sending" /\ dest'[op'[q].msg] = op'[q].to
    <3>1. CASE op'[q] = op[q] /\ op[q].msg # m
      <4>1. op[q].msg \in Msg
        BY <2>1, <3>1, OpFields DEF TypeOK
      <4> QED BY <1>1, <2>1, <3>1, <4>1 DEF DeliveryInv
    <3>2. CASE q = p /\ op'[q].msg = m /\ op'[q].to = t /\ outcome'[m] = "sending"
      BY <1>1, <3>2 DEF TypeOK
    <3> QED BY <1>2, <2>1, <3>1, <3>2
  <2>2. ASSUME NEW q \in Proc, NEW r \in Proc,
               op'[q].do = "push", op'[r].do = "push", op'[q].msg = op'[r].msg
        PROVE  q = r
    BY <1>2, <2>2 DEF DeliveryInv
  <2> QED BY <2>1, <2>2 DEF SendingInv
<1>4. QueuedOnce'
  <2>1. \A u \in Thread : \A i \in 1..Len(queue[u]) : queue[u][i] \in Msg /\ queue[u][i] # m
    BY <1>1 DEF TypeOK, DeliveryInv, QueuedOnce
  <2>2. \A u \in Thread : \A i \in 1..Len(queue[u]) :
          outcome'[queue[u][i]] = outcome[queue[u][i]] /\ dest'[queue[u][i]] = dest[queue[u][i]]
    BY <1>1, <2>1
  <2> QED BY <1>1, <2>2 DEF DeliveryInv, QueuedOnce
<1>5. HandlingInv'
  BY <1>1 DEF TypeOK, DeliveryInv, HandlingInv
<1>6. LossNeedsQuit'
  BY <1>1 DEF TypeOK, DeliveryInv, LossNeedsQuit
<1> QED BY <1>3, <1>4, <1>5, <1>6 DEF DeliveryInv, SendingInv, HandlingInv

\* sendMessage() moves the message from its sender to the queue.
LEMMA DeliveryFinishPush ==
  ASSUME TypeOK, TypeOK', RunInv, DeliveryInv, NEW p \in Proc, FinishPush(p)
  PROVE  DeliveryInv'
<1> DEFINE t == op[p].to
           m == op[p].msg
<1>1. /\ t \in Thread /\ m \in Msg
      /\ outcome[m] = "sending" /\ dest[m] = t
  BY OpFields DEF TypeOK, DeliveryInv, FinishPush
<1>2. /\ \A n \in Msg : n # m => outcome'[n] = outcome[n]
      /\ dest' = dest /\ current' = current /\ stopped' = stopped
      /\ \/ ~quitting[t] /\ outcome'[m] = "queued" /\ queue' = [queue EXCEPT ![t] = Append(@, m)]
         \/ quitting[t] /\ outcome'[m] = "lost" /\ queue' = queue
  BY <1>1 DEF TypeOK, FinishPush, Accepts, Enqueue
<1>3. \A q \in Proc : op'[q].do = "push" => op'[q] = op[q] /\ op[q].msg # m
  BY DEF TypeOK, FinishPush, DeliveryInv, Idle
<1>4. SendingInv'
  BY <1>2, <1>3, OpFields DEF TypeOK, DeliveryInv, SendingInv
<1>5. QueuedOnce'
  <2>1. CASE queue' = queue
    <3>0. \A u \in Thread : queue[u] \in Seq(Msg)
      BY DEF TypeOK
    <3>1. \A u \in Thread : \A i \in 1..Len(queue[u]) : queue[u][i] \in Msg /\ queue[u][i] # m
      BY <1>1, <3>0 DEF DeliveryInv, QueuedOnce
    <3>2. \A u \in Thread : \A i \in 1..Len(queue[u]) : outcome'[queue[u][i]] = outcome[queue[u][i]]
      BY <1>2, <3>1
    <3> QED BY <1>2, <2>1, <3>2 DEF DeliveryInv, QueuedOnce
  <2>2. CASE outcome'[m] = "queued" /\ queue' = [queue EXCEPT ![t] = Append(@, m)]
    <3> SUFFICES ASSUME NEW u \in Thread
                 PROVE  /\ \A i, j \in 1..Len(queue'[u]) : queue'[u][i] = queue'[u][j] => i = j
                        /\ \A i \in 1..Len(queue'[u]) :
                             /\ outcome'[queue'[u][i]] = "queued"
                             /\ dest'[queue'[u][i]] = u
                             /\ current'[u] # queue'[u][i]
      BY DEF QueuedOnce
    <3>1. \A i \in 1..Len(queue[u]) : queue[u][i] \in Msg /\ queue[u][i] # m
      BY <1>1 DEF TypeOK, DeliveryInv, QueuedOnce
    <3>2. current[u] # m
      BY <1>1 DEF DeliveryInv
    <3>3. CASE u # t
      <4>1. queue'[u] = queue[u]
        BY <2>2, <3>3 DEF TypeOK
      <4>2. \A i \in 1..Len(queue[u]) : outcome'[queue[u][i]] = outcome[queue[u][i]]
        BY <1>2, <3>1
      <4> QED BY <1>2, <4>1, <4>2 DEF DeliveryInv, QueuedOnce
    <3>4. CASE u = t
      <4>0. queue'[u] = Append(queue[u], m) /\ queue[u] \in Seq(Msg)
        BY <1>1, <2>2, <3>4 DEF TypeOK
      <4>1. /\ Len(queue'[u]) = Len(queue[u]) + 1 /\ Len(queue[u]) \in Nat
            /\ \A i \in 1..Len(queue[u]) : queue'[u][i] = queue[u][i]
            /\ queue'[u][Len(queue[u]) + 1] = m
        BY <1>1, <4>0
      <4>2. \A i \in 1..Len(queue'[u]) : i \in 1..Len(queue[u]) \/ queue'[u][i] = m
        <5>1. \A i \in 1..Len(queue'[u]) : i \in 1..Len(queue[u]) \/ i = Len(queue[u]) + 1
          BY <4>1
        <5> QED BY <4>1, <5>1
      <4>3. \A i, j \in 1..Len(queue[u]) : queue[u][i] = queue[u][j] => i = j
        BY DEF DeliveryInv, QueuedOnce
      <4>4. \A i, j \in 1..Len(queue'[u]) : queue'[u][i] = queue'[u][j] => i = j
        <5>1. \A i \in 1..Len(queue'[u]) : i \in 1..Len(queue[u]) \/ i = Len(queue[u]) + 1
          BY <4>1
        <5> QED BY <3>1, <4>1, <4>3, <5>1
      <4>5. \A i \in 1..Len(queue[u]) :
              /\ outcome'[queue[u][i]] = "queued"
              /\ dest'[queue[u][i]] = u
              /\ current'[u] # queue[u][i]
        BY <1>2, <3>1 DEF DeliveryInv, QueuedOnce
      <4>6. outcome'[m] = "queued" /\ dest'[m] = u /\ current'[u] # m
        BY <1>1, <1>2, <2>2, <3>2, <3>4
      <4>7. \A i \in 1..Len(queue'[u]) :
              /\ outcome'[queue'[u][i]] = "queued"
              /\ dest'[queue'[u][i]] = u
              /\ current'[u] # queue'[u][i]
        <5> SUFFICES ASSUME NEW i \in 1..Len(queue'[u])
                     PROVE  /\ outcome'[queue'[u][i]] = "queued"
                            /\ dest'[queue'[u][i]] = u
                            /\ current'[u] # queue'[u][i]
          OBVIOUS
        <5>1. CASE i \in 1..Len(queue[u])
          BY <4>1, <4>5, <5>1
        <5>2. CASE queue'[u][i] = m
          BY <4>6, <5>2
        <5> QED BY <4>2, <5>1, <5>2
      <4> QED BY <4>4, <4>7
    <3> QED BY <3>3, <3>4
  <2> QED BY <1>2, <2>1, <2>2
<1>6. HandlingInv'
  BY <1>1, <1>2 DEF DeliveryInv, HandlingInv
<1>7. LossNeedsQuit'
  BY <1>1, <1>2 DEF DeliveryInv, LossNeedsQuit, RunInv
<1> QED BY <1>4, <1>5, <1>6, <1>7 DEF DeliveryInv, SendingInv, HandlingInv

\* Looper.quit() drops what waits in the queue of the thread it stops.
LEMMA DeliveryFinishQuit ==
  ASSUME TypeOK, TypeOK', RunInv, DeliveryInv, NEW p \in Proc, FinishQuit(p)
  PROVE  DeliveryInv'
<1> DEFINE t == op[p].to
<1>1. t \in Thread /\ stopped[t]
  BY OpFields DEF TypeOK, RunInv, FinishQuit
<1>2. /\ \A n \in Msg : outcome'[n] = outcome[n]
                        \/ (outcome'[n] = "lost" /\ \E i \in 1..Len(queue[t]) : queue[t][i] = n)
      /\ queue' = [queue EXCEPT ![t] = << >>]
      /\ dest' = dest /\ current' = current /\ stopped' = stopped
  BY <1>1 DEF TypeOK, FinishQuit, LooperOf, Range
<1>3. \A n \in Msg : outcome'[n] = outcome[n] \/ (outcome[n] = "queued" /\ dest[n] = t)
  BY <1>1, <1>2 DEF DeliveryInv, QueuedOnce
<1>4. \A q \in Proc : op'[q].do = "push" => op'[q] = op[q]
  BY DEF TypeOK, FinishQuit, Idle
<1>5. SendingInv'
  BY <1>2, <1>3, <1>4, OpFields DEF TypeOK, DeliveryInv, SendingInv
<1>6. QueuedOnce'
  <2> SUFFICES ASSUME NEW u \in Thread
               PROVE  /\ \A i, j \in 1..Len(queue'[u]) : queue'[u][i] = queue'[u][j] => i = j
                      /\ \A i \in 1..Len(queue'[u]) :
                           /\ outcome'[queue'[u][i]] = "queued"
                           /\ dest'[queue'[u][i]] = u
                           /\ current'[u] # queue'[u][i]
    BY DEF QueuedOnce
  <2>1. CASE u = t
    BY <1>1, <1>2, <2>1 DEF TypeOK
  <2>2. CASE u # t
    BY <1>2, <1>3, <2>2 DEF TypeOK, DeliveryInv, QueuedOnce
  <2> QED BY <2>1, <2>2
<1>7. HandlingInv'
  <2> SUFFICES ASSUME NEW u \in Thread, current[u] \in Msg
               PROVE  outcome'[current[u]] = "queued" /\ dest[current[u]] = u
    BY <1>2 DEF HandlingInv
  <2>1. outcome[current[u]] = "queued" /\ dest[current[u]] = u
    BY DEF DeliveryInv
  <2>2. \A i \in 1..Len(queue[t]) : queue[t][i] # current[u]
    BY <1>1, <2>1 DEF DeliveryInv, QueuedOnce
  <2> QED BY <1>2, <2>1, <2>2
<1>8. LossNeedsQuit'
  BY <1>1, <1>2, <1>3 DEF DeliveryInv, LossNeedsQuit
<1> QED BY <1>5, <1>6, <1>7, <1>8 DEF DeliveryInv, SendingInv, HandlingInv

\* A push() that finds no Handler takes its message back.
LEMMA DeliveryMissHandler ==
  ASSUME TypeOK, DeliveryInv, NEW p \in Proc, MissHandler(p)
  PROVE  DeliveryInv'
<1>1. UNCHANGED <<queue, current, dest, stopped>>
  BY DEF MissHandler, looperVars
<1>2. \A q \in Proc : op'[q].do = "push" => q # p /\ op'[q] = op[q]
  BY DEF TypeOK, MissHandler, Idle
<1>3. \A n \in Msg : outcome'[n] = outcome[n]
                     \/ (outcome'[n] = "refused" /\ op[p].do = "push" /\ op[p].msg = n)
  BY DEF TypeOK, MissHandler
<1>4. \A n \in Msg : outcome[n] = "queued" => outcome'[n] = "queued"
  BY <1>3 DEF DeliveryInv
<1>5. SendingInv'
  <2>1. ASSUME NEW q \in Proc, op'[q].do = "push"
        PROVE  outcome'[op'[q].msg] = "sending" /\ dest'[op'[q].msg] = op'[q].to
    <3>1. op'[q] = op[q] /\ op[q].do = "push" /\ op[q].msg \in Msg /\ q # p
      BY <1>2, <2>1, OpFields DEF TypeOK
    <3>2. op[p].do = "push" => op[p].msg # op[q].msg
      BY <3>1 DEF DeliveryInv
    <3> QED BY <1>1, <1>3, <3>1, <3>2 DEF DeliveryInv
  <2>2. ASSUME NEW q \in Proc, NEW r \in Proc,
               op'[q].do = "push", op'[r].do = "push", op'[q].msg = op'[r].msg
        PROVE  q = r
    BY <1>2, <2>2 DEF DeliveryInv
  <2> QED BY <2>1, <2>2 DEF SendingInv
<1>6. QueuedOnce'
  BY <1>1, <1>4 DEF TypeOK, DeliveryInv, QueuedOnce
<1>7. HandlingInv'
  BY <1>1, <1>4 DEF DeliveryInv, HandlingInv
<1>8. LossNeedsQuit'
  BY <1>1, <1>3 DEF DeliveryInv, LossNeedsQuit
<1> QED BY <1>5, <1>6, <1>7, <1>8 DEF DeliveryInv, SendingInv, HandlingInv

\* The oldest message moves from the queue to the Handler.
LEMMA DeliveryDispatch ==
  ASSUME TypeOK, TypeOK', DeliveryInv, NEW t \in Thread, Dispatch(t)
  PROVE  DeliveryInv'
<1>1. /\ queue[t] # << >> /\ queue[t] \in Seq(Msg)
      /\ current' = [current EXCEPT ![t] = Head(queue[t])]
      /\ queue' = [queue EXCEPT ![t] = Tail(@)]
      /\ UNCHANGED <<op, outcome, dest, stopped>>
  BY DEF TypeOK, Dispatch, callVars
<1>2. /\ Len(queue[t]) \in Nat \ {0}
      /\ Head(queue[t]) = queue[t][1]
      /\ queue'[t] = Tail(queue[t]) /\ current'[t] = queue[t][1]
      /\ Len(queue'[t]) = Len(queue[t]) - 1
      /\ \A i \in 1..Len(queue'[t]) : queue'[t][i] = queue[t][i + 1]
  BY <1>1 DEF TypeOK
<1>3. QueuedOnce'
  <2> SUFFICES ASSUME NEW u \in Thread
               PROVE  /\ \A i, j \in 1..Len(queue'[u]) : queue'[u][i] = queue'[u][j] => i = j
                      /\ \A i \in 1..Len(queue'[u]) :
                           /\ outcome'[queue'[u][i]] = "queued"
                           /\ dest'[queue'[u][i]] = u
                           /\ current'[u] # queue'[u][i]
    BY DEF QueuedOnce
  <2>1. CASE u = t
    BY <1>1, <1>2, <2>1 DEF DeliveryInv, QueuedOnce
  <2>2. CASE u # t
    <3>1. queue'[u] = queue[u] /\ current'[u] = current[u]
      BY <1>1, <2>2 DEF TypeOK
    <3> QED BY <1>1, <3>1 DEF DeliveryInv, QueuedOnce
  <2> QED BY <2>1, <2>2
<1>4. HandlingInv'
  <2>1. outcome[queue[t][1]] = "queued" /\ dest[queue[t][1]] = t
    BY <1>2 DEF DeliveryInv, QueuedOnce
  <2>2. \A u \in Thread : u # t => current'[u] = current[u]
    BY <1>1 DEF TypeOK
  <2> QED BY <1>1, <1>2, <2>1, <2>2 DEF DeliveryInv, HandlingInv
<1>5. SendingInv' /\ LossNeedsQuit'
  BY <1>1 DEF DeliveryInv, SendingInv, LossNeedsQuit
<1> QED BY <1>3, <1>4, <1>5 DEF DeliveryInv, SendingInv, HandlingInv

\* A handled message leaves the Handler.
LEMMA DeliveryHandleEnds ==
  ASSUME TypeOK, TypeOK', DeliveryInv, NEW t \in Thread, HandleEnds(t)
  PROVE  DeliveryInv'
<1>1. /\ \A n \in Msg : n # current[t] => outcome'[n] = outcome[n]
      /\ current[t] \in Msg => outcome'[current[t]] = "handled"
      /\ current' = [current EXCEPT ![t] = NoMsg]
      /\ queue' = queue /\ dest' = dest
  BY DEF TypeOK, HandleEnds
<1>2. \A q \in Proc : op'[q].do = "push" => op'[q] = op[q] /\ op[q].msg # current[t]
  <2>1. \A q \in Proc : op'[q].do = "push" => op'[q] = op[q]
    BY DEF TypeOK, HandleEnds, QuitTest
  <2> QED BY <2>1, OpFields DEF TypeOK, DeliveryInv
<1>3. SendingInv'
  BY <1>1, <1>2, OpFields DEF TypeOK, DeliveryInv, SendingInv
<1>4. QueuedOnce'
  <2> SUFFICES ASSUME NEW u \in Thread
               PROVE  /\ \A i, j \in 1..Len(queue[u]) : queue[u][i] = queue[u][j] => i = j
                      /\ \A i \in 1..Len(queue[u]) :
                           /\ outcome'[queue[u][i]] = "queued"
                           /\ dest[queue[u][i]] = u
                           /\ current'[u] # queue[u][i]
    BY <1>1 DEF QueuedOnce
  <2>1. \A i \in 1..Len(queue[u]) : queue[u][i] \in Msg /\ queue[u][i] # current[t]
    BY DEF TypeOK, DeliveryInv, QueuedOnce
  <2>2. \A i \in 1..Len(queue[u]) : outcome'[queue[u][i]] = outcome[queue[u][i]]
    BY <1>1, <2>1
  <2>3. current'[u] = current[u] \/ current'[u] \notin Msg
    BY <1>1, LuaThreadAssumption DEF TypeOK
  <2> QED BY <2>1, <2>2, <2>3 DEF DeliveryInv, QueuedOnce
<1>5. HandlingInv'
  BY <1>1, LuaThreadAssumption DEF TypeOK, DeliveryInv, HandlingInv
<1>6. LossNeedsQuit'
  <2>1. \A u \in Thread : stopped[u] => stopped'[u]
    BY DEF TypeOK, HandleEnds, QuitTest
  <2> QED BY <1>1, <2>1 DEF DeliveryInv, LossNeedsQuit
<1> QED BY <1>3, <1>4, <1>5, <1>6 DEF DeliveryInv, SendingInv, HandlingInv

\* DeliveryInv survives every step.
LEMMA DeliveryStep ==
  ASSUME TypeOK, TypeOK', ListInv, RunInv, DeliveryInv, [Next]_vars
  PROVE  DeliveryInv'
<1>1. CASE \E p \in Proc, t \in Thread, m \in Msg : BeginPush(p, t, m)
  BY <1>1, DeliveryBeginPush
<1>2. CASE \E p \in Proc : FinishPush(p)
  BY <1>2, DeliveryFinishPush
<1>3. CASE \E p \in Proc : FinishQuit(p)
  BY <1>3, DeliveryFinishQuit
<1>4. CASE \E t \in Thread : Dispatch(t)
  BY <1>4, DeliveryDispatch
<1>5. CASE \E t \in Thread : HandleEnds(t)
  BY <1>5, DeliveryHandleEnds
<1>6. CASE UNCHANGED <<outcome, dest, queue, current>>
  BY <1>6, DeliveryKept
<1>7. CASE \E p \in Proc : MissHandler(p)
  BY <1>7, DeliveryMissHandler
<1> QED
  BY <1>1, <1>2, <1>3, <1>4, <1>5, <1>6, <1>7
  DEF Next, Request, Finish, Run, Destroy, vars, callVars, looperVars, Construct, Start, BeginQuit,
      FinishRegGc, InitFails, ScriptEnds, Prepare, Announce, RunEnds, LoopEnds, Exit, BeginDestroy,
      NextFails, GcNext, EndDestroy

-----------------------------------------------------------------------------
(* The list of an activity's threads, while no two processes add to it at   *)
(* once.                                                                    *)

\* As long as no two processes are inside gcList.add, nothing that was put into the
\* list leaves it, and who is being added ends up in it.
LEMMA AddStep ==
  ASSUME TypeOK, TypeOK', ListInv, AddInv, [Next]_vars, ~raced'
  PROVE  /\ AddInv'
         /\ \A i \in 1..size : i \in 1..size' /\ elementData'[i] = elementData[i]
         /\ \A t \in Thread : BeingAdded(t) => BeingAdded(t)' \/ Listed(t)'
<1>1. CASE \E p \in Proc : FinishRegGc(p)
  <2>1. PICK p \in Proc : FinishRegGc(p)
    BY <1>1
  <2>2. op[p].do = "regGc" /\ op[p].at = Len(elementData) + 1 /\ op[p].obj \in Thread
    BY <2>1, OpFields DEF TypeOK, AddInv, FinishRegGc
  <2>3. /\ elementData' = Append(elementData, op[p].obj)
        /\ size' = size + 1 /\ Len(elementData') = Len(elementData) + 1
        /\ Len(elementData) \in Nat
        /\ elementData'[size + 1] = op[p].obj
        /\ \A i \in 1..size : elementData'[i] = elementData[i]
    BY <2>1, <2>2 DEF TypeOK, AddInv, FinishRegGc
  <2>4. \A q \in Proc : op'[q].do # "regGc"
    BY <2>1, <2>2 DEF TypeOK, AddInv, FinishRegGc, Idle
  <2>5. \A t \in Thread : BeingAdded(t) => t = op[p].obj
    BY <2>2 DEF AddInv, BeingAdded
  <2> QED BY <2>3, <2>4, <2>5 DEF AddInv, Listed
<1>2. CASE \E p \in Proc, t \in Thread : Construct(p, t)
  <2>1. PICK p \in Proc, t \in Thread : Construct(p, t)
    BY <1>2
  <2>2. elementData' = elementData /\ size' = size
    BY <2>1 DEF Construct
  <2>3. CASE t \in FromFunc
    BY <2>1, <2>2, <2>3 DEF Construct, AddInv, BeingAdded
  <2>4. CASE t \notin FromFunc
    <3>1. \A q \in Proc : op[q].do # "regGc"
      BY <2>1, <2>4 DEF Construct
    <3>2. op' = [op EXCEPT ![p] = [do |-> "regGc", obj |-> t, at |-> size + 1]]
      BY <2>1, <2>4 DEF Construct, NextSlot
    <3>3. \A q \in Proc : op'[q].do = "regGc" => q = p /\ op'[q].at = size + 1
      BY <3>1, <3>2 DEF TypeOK
    <3> QED BY <2>2, <3>1, <3>3 DEF AddInv, BeingAdded
  <2> QED BY <2>3, <2>4
<1>3. CASE /\ UNCHANGED <<elementData, size>>
           /\ \A q \in Proc : op'[q].do = "regGc" <=> op[q].do = "regGc"
           /\ \A q \in Proc : op'[q].do = "regGc" => op'[q] = op[q]
  BY <1>3 DEF AddInv, BeingAdded
<1>4. ASSUME NEW p \in Proc, op[p].do # "regGc", UNCHANGED <<elementData, size>>,
             \A q \in Proc : op'[q] = op[q] \/ (q = p /\ op'[q].do # "regGc")
      PROVE  /\ AddInv'
             /\ \A i \in 1..size : i \in 1..size' /\ elementData'[i] = elementData[i]
             /\ \A t \in Thread : BeingAdded(t) => BeingAdded(t)' \/ Listed(t)'
  <2>1. \A q \in Proc : op'[q].do = "regGc" <=> op[q].do = "regGc"
    BY <1>4
  <2>2. \A q \in Proc : op'[q].do = "regGc" => op'[q] = op[q]
    BY <1>4
  <2> QED BY <1>3, <1>4, <2>1, <2>2
<1>5. ASSUME NEW p \in Proc, NEW t \in Thread, NEW what \in {"quit", "gc"}, QuitTest(p, t, what),
             op[p] = Idle
      PROVE  op[p].do # "regGc" /\ \A q \in Proc : op'[q] = op[q] \/ (q = p /\ op'[q].do # "regGc")
  BY <1>5 DEF TypeOK, QuitTest, Idle
<1>6. CASE \E p \in Proc, t \in Thread : BeginQuit(p, t)
  BY <1>4, <1>5, <1>6 DEF BeginQuit, CanAct, listVars
<1>7. CASE \E t \in Thread : ScriptEnds(t) \/ HandleEnds(t)
  BY <1>3, <1>4, <1>5, <1>7 DEF ScriptEnds, HandleEnds, CanStep, listVars, Proc
<1>8. CASE GcNext
  <2>1. elementData[cursor + 1] \in Thread /\ UI \in Proc
    BY <1>8 DEF GcNext, TypeOK, ListInv, HasNext, Proc
  <2> QED BY <1>4, <1>5, <1>8, <2>1 DEF GcNext, listVars
<1>9. CASE \E p \in Proc, t \in Thread, m \in Msg : BeginPush(p, t, m)
  <2>1. PICK p \in Proc, t \in Thread, m \in Msg : BeginPush(p, t, m)
    BY <1>9
  <2>2. op[p].do # "regGc" /\ UNCHANGED <<elementData, size>>
    BY <2>1 DEF BeginPush, CanAct, Idle, listVars
  <2>3. \A q \in Proc : op'[q] = op[q] \/ (q = p /\ op'[q].do # "regGc")
    BY <2>1 DEF TypeOK, BeginPush
  <2> QED BY <1>4, <2>2, <2>3
<1>10. CASE \E p \in Proc : FinishPush(p) \/ FinishQuit(p) \/ MissHandler(p)
  <2>1. PICK p \in Proc : FinishPush(p) \/ FinishQuit(p) \/ MissHandler(p)
    BY <1>10
  <2>2. op[p].do # "regGc" /\ UNCHANGED <<elementData, size>>
    BY <2>1 DEF FinishPush, FinishQuit, MissHandler, listVars
  <2>3. \A q \in Proc : op'[q] = op[q] \/ (q = p /\ op'[q].do # "regGc")
    BY <2>1 DEF TypeOK, FinishPush, FinishQuit, MissHandler, Idle
  <2> QED BY <1>4, <2>2, <2>3
<1>11. CASE UNCHANGED <<op, elementData, size>>
  BY <1>3, <1>11
<1> QED
  BY <1>1, <1>2, <1>6, <1>7, <1>8, <1>9, <1>10, <1>11
  DEF Next, Request, Finish, Run, Destroy, vars, listVars, Start, InitFails, Prepare, Announce,
      RunEnds, Dispatch, LoopEnds, Exit, BeginDestroy, NextFails, EndDestroy

\* A thread comes into being by Construct.
LEMMA ConstructStep ==
  ASSUME TypeOK, [Next]_vars, NEW t \in Thread, pc[t] = "absent", pc'[t] # "absent"
  PROVE  \E p \in Proc : Construct(p, t)
<1>1. CASE \E p \in Proc, u \in Thread : Construct(p, u) \/ Start(p, u)
  BY <1>1 DEF TypeOK, Construct, Start
<1>2. CASE \E u \in Thread : Run(u)
  BY <1>2 DEF TypeOK, Run, AfterScript, InitFails, ScriptEnds, Prepare, Announce, RunEnds, Dispatch,
              HandleEnds, LoopEnds, Exit
<1>3. CASE UNCHANGED pc
  BY <1>3
<1> QED
  BY <1>1, <1>2, <1>3
  DEF Next, Request, Finish, Destroy, vars, BeginQuit, BeginPush, FinishRegGc, FinishPush, FinishQuit,
      MissHandler, BeginDestroy, NextFails, GcNext, EndDestroy

\* A thread once gc'd stays so, and a gc() under way sets its mGc.
LEMMA GcKept ==
  ASSUME TypeOK, ListInv, [Next]_vars, NEW t \in Thread
  PROVE  /\ mGc[t] => mGc'[t]
         /\ op[UI] = [do |-> "gc", to |-> t] =>
              op'[UI] = op[UI] \/ mGc'[t] \/ phase' = "crashed"
<1>1. mGc[t] => mGc'[t]
  <2>1. CASE \E p \in Proc : FinishQuit(p)
    BY <2>1 DEF TypeOK, FinishQuit
  <2>2. CASE GcNext
    BY <2>2 DEF TypeOK, GcNext
  <2>3. CASE UNCHANGED mGc
    BY <2>3
  <2>4. CASE \E p \in Proc : Request(p)
    BY <2>3, <2>4 DEF Request, Construct, Start, BeginPush, BeginQuit
  <2>5. CASE \E p \in Proc : FinishPush(p) \/ FinishRegGc(p) \/ MissHandler(p)
    BY <2>3, <2>5 DEF FinishPush, FinishRegGc, MissHandler
  <2>6. CASE \E u \in Thread : Run(u)
    BY <2>3, <2>6 DEF Run, InitFails, ScriptEnds, Prepare, Announce, RunEnds, Dispatch, HandleEnds,
                      LoopEnds, Exit
  <2>7. CASE BeginDestroy \/ NextFails \/ EndDestroy
    BY <2>3, <2>7 DEF BeginDestroy, NextFails, EndDestroy
  <2> QED
    BY <2>1, <2>2, <2>3, <2>4, <2>5, <2>6, <2>7 DEF Next, Finish, Destroy, vars
<1>2. ASSUME op[UI] = [do |-> "gc", to |-> t]
      PROVE  op'[UI] = op[UI] \/ mGc'[t] \/ phase' = "crashed"
  <2>0. op[UI].do = "gc" /\ op[UI].to = t /\ op[UI] # Idle /\ UI \in Proc
    BY <1>2 DEF Idle, Proc
  <2>1. CASE \E p \in Proc : FinishQuit(p)
    <3>1. PICK p \in Proc : FinishQuit(p)
      BY <2>1
    <3>2. mGc' = [mGc EXCEPT ![op[p].to] = @ \/ op[p].do = "gc"] /\ op' = [op EXCEPT ![p] = Idle]
      BY <3>1 DEF FinishQuit
    <3>3. p = UI => mGc'[t]
      BY <2>0, <3>2 DEF TypeOK
    <3>4. p # UI => op'[UI] = op[UI]
      BY <2>0, <3>2 DEF TypeOK
    <3> QED BY <3>3, <3>4
  <2>2. CASE \E p \in Proc : FinishPush(p) \/ FinishRegGc(p)
    BY <2>0, <2>2 DEF TypeOK, FinishPush, FinishRegGc
  <2>7. CASE \E p \in Proc : MissHandler(p)
    BY <2>0, <2>7 DEF TypeOK, MissHandler
  <2>3. CASE \E p \in Proc : Request(p)
    BY <2>0, <2>3 DEF TypeOK, Request, CanAct, Construct, Start, BeginPush, BeginQuit, QuitTest
  <2>4. CASE \E u \in Thread : ScriptEnds(u) \/ HandleEnds(u)
    BY <2>0, <2>4, LuaThreadAssumption DEF TypeOK, ScriptEnds, HandleEnds, QuitTest
  <2>5. CASE GcNext
    BY <2>0, <2>5 DEF GcNext
  <2>6. CASE UNCHANGED op
    BY <2>6
  <2> QED
    BY <2>1, <2>2, <2>3, <2>4, <2>5, <2>6, <2>7
    DEF Next, Finish, Run, Destroy, vars, InitFails, Prepare, Announce, RunEnds, Dispatch, LoopEnds,
        Exit, BeginDestroy, NextFails, EndDestroy
<1> QED BY <1>1, <1>2

\* A process between two calls is not inside a gc().
LEMMA IdleIsNotGc == \A t \in Thread : Idle # [do |-> "gc", to |-> t]
<1> SUFFICES ASSUME NEW t \in Thread, Idle = [do |-> "gc", to |-> t] PROVE FALSE
  OBVIOUS
<1>1. Idle.do = [do |-> "gc", to |-> t].do
  OBVIOUS
<1> QED BY <1>1 DEF Idle

\* RegisterInv survives every step.
LEMMA RegisterStep ==
  ASSUME TypeOK, TypeOK', ListInv, RegisterInv, [Next]_vars
  PROVE  RegisterInv'
<1> SUFFICES ASSUME ~raced'
             PROVE  /\ AddInv'
                    /\ \A t \in Thread \ FromFunc :
                         pc'[t] # "absent" => Listed(t)' \/ BeingAdded(t)'
                    /\ phase' \in {"destroying", "destroyed"} =>
                         \A t \in due' : \E i \in 1..limit' : elementData'[i] = t
                    /\ phase' = "destroying" =>
                         \A i \in 1..limit' : i <= cursor' =>
                           mGc'[elementData'[i]] \/ op'[UI] = [do |-> "gc", to |-> elementData'[i]]
                    /\ phase' = "destroyed" => \A i \in 1..limit' : mGc'[elementData'[i]]
  BY DEF RegisterInv
<1>1. ~raced
  <2>1. CASE \E p \in Proc : Request(p)
    BY <2>1 DEF Request, Construct, Start, BeginQuit, BeginPush
  <2>2. CASE \E p \in Proc : Finish(p)
    BY <2>2 DEF Finish, FinishRegGc, FinishPush, FinishQuit, MissHandler
  <2>3. CASE \E t \in Thread : Run(t)
    BY <2>3 DEF Run, InitFails, ScriptEnds, Prepare, Announce, RunEnds, Dispatch, HandleEnds, LoopEnds, Exit
  <2>4. CASE BeginDestroy \/ Destroy \/ UNCHANGED vars
    BY <2>4 DEF BeginDestroy, Destroy, NextFails, GcNext, EndDestroy, vars
  <2> QED BY <2>1, <2>2, <2>3, <2>4 DEF Next
<1>2. /\ AddInv'
      /\ \A i \in 1..size : i \in 1..size' /\ elementData'[i] = elementData[i]
      /\ \A t \in Thread : BeingAdded(t) => BeingAdded(t)' \/ Listed(t)'
  BY <1>1, AddStep DEF RegisterInv
<1>3. \A i \in 1..limit : i \in 1..size /\ elementData[i] \in Thread /\ elementData'[i] = elementData[i]
  <2>1. limit <= size /\ size = Len(elementData) /\ limit \in Nat /\ size \in Nat
    BY <1>1 DEF TypeOK, ListInv, RegisterInv, AddInv
  <2>2. \A i \in 1..Len(elementData) : elementData[i] \in Thread
    BY DEF TypeOK
  <2> QED BY <1>2, <2>1, <2>2
<1>4. ASSUME NEW t \in Thread \ FromFunc, pc'[t] # "absent"
      PROVE  Listed(t)' \/ BeingAdded(t)'
  <2>1. CASE pc[t] # "absent"
    BY <1>1, <1>2, <2>1 DEF RegisterInv, Listed
  <2>2. CASE pc[t] = "absent"
    <3>1. PICK p \in Proc : Construct(p, t)
      BY <1>4, <2>2, ConstructStep
    <3>2. op'[p] = [do |-> "regGc", obj |-> t, at |-> size + 1]
      BY <3>1 DEF TypeOK, Construct, NextSlot
    <3> QED BY <3>2 DEF BeingAdded
  <2> QED BY <2>1, <2>2
<1>5. CASE BeginDestroy
  <2>1. /\ phase' = "destroying" /\ limit' = size /\ cursor' = 0
        /\ elementData' = elementData
        /\ \A t \in due' : t \in Thread \ FromFunc /\ pc[t] # "absent" /\ ~BeingAdded(t)
    BY <1>5 DEF ListInv, BeginDestroy, listVars, BeingAdded
  <2>2. \A t \in due' : \E i \in 1..limit' : elementData'[i] = t
    BY <1>1, <2>1 DEF RegisterInv, Listed
  <2> QED BY <1>2, <1>4, <2>1, <2>2
<1>6. CASE GcNext
  <2> DEFINE e == elementData[cursor + 1]
  <2>1. /\ phase = "destroying" /\ phase' = phase /\ limit' = limit /\ due' = due
        /\ cursor' = cursor + 1 /\ op[UI] = Idle
        /\ cursor + 1 \in 1..limit
    BY <1>6 DEF TypeOK, GcNext, HasNext
  <2>2. mGc'[e] \/ op'[UI] = [do |-> "gc", to |-> e]
    <3>1. e \in Thread
      BY <1>3, <2>1
    <3>2. CASE isRunning[e]
      <4>1. op' = [op EXCEPT ![UI] = [do |-> "gc", to |-> e]]
        BY <1>6, <3>2 DEF GcNext, QuitTest
      <4> QED BY <4>1 DEF TypeOK, Proc
    <3>3. CASE ~isRunning[e]
      <4>1. mGc' = [mGc EXCEPT ![e] = @ \/ ~isRunning[e]]
        BY <1>6 DEF GcNext
      <4> QED BY <3>1, <3>3, <4>1 DEF TypeOK
    <3> QED BY <3>2, <3>3
  <2>3. \A i \in 1..limit : i <= cursor => mGc[elementData[i]]
    BY <1>1, <1>3, <2>1, IdleIsNotGc DEF RegisterInv
  <2>4. \A i \in 1..limit : i <= cursor + 1 => i <= cursor \/ i = cursor + 1
    BY DEF TypeOK
  <2>5. \A i \in 1..limit : i <= cursor' =>
          mGc'[elementData'[i]] \/ op'[UI] = [do |-> "gc", to |-> elementData'[i]]
    BY <1>3, <2>1, <2>2, <2>3, <2>4, GcKept
  <2>6. \A t \in due : \E i \in 1..limit : elementData'[i] = t
    BY <1>1, <1>3, <2>1 DEF RegisterInv
  <2> QED BY <1>2, <1>4, <2>1, <2>5, <2>6
<1>7. CASE EndDestroy
  <2>1. /\ phase = "destroying" /\ phase' = "destroyed" /\ limit' = limit /\ due' = due
        /\ op[UI] = Idle /\ ~(cursor < limit) /\ mGc' = mGc
    BY <1>7 DEF EndDestroy, HasNext
  <2>2. \A i \in 1..limit : mGc[elementData[i]]
    <3>1. \A i \in 1..limit : i <= cursor
      BY <2>1 DEF TypeOK
    <3> QED BY <1>1, <1>3, <2>1, <3>1, IdleIsNotGc DEF RegisterInv
  <2>3. \A t \in due : \E i \in 1..limit : elementData'[i] = t
    BY <1>1, <1>3, <2>1 DEF RegisterInv
  <2> QED BY <1>2, <1>3, <1>4, <2>1, <2>2, <2>3
<1>10. CASE phase' = "crashed"
  BY <1>2, <1>4, <1>10
<1>9. CASE UNCHANGED <<phase, cursor, limit, due>>
  <2>1. phase \in {"destroying", "destroyed"} =>
          \A t \in due : \E i \in 1..limit : elementData'[i] = t
    BY <1>1, <1>3 DEF RegisterInv
  <2>2. phase = "destroying" =>
          \A i \in 1..limit : i <= cursor =>
            mGc'[elementData'[i]] \/ op'[UI] = [do |-> "gc", to |-> elementData'[i]]
    BY <1>1, <1>3, <1>9, GcKept DEF RegisterInv
  <2>3. phase = "destroyed" => \A i \in 1..limit : mGc'[elementData'[i]]
    BY <1>1, <1>3, GcKept DEF RegisterInv
  <2> QED BY <1>2, <1>4, <1>9, <2>1, <2>2, <2>3
<1>11. CASE (\E p \in Proc : MissHandler(p)) \/ NextFails
  <2>1. phase' = "crashed" \/ UNCHANGED <<phase, cursor, limit, due>>
    BY <1>11 DEF MissHandler, NextFails, destroyVars
  <2> QED BY <1>9, <1>10, <2>1
<1>12. CASE (\E p \in Proc : Request(p)) \/ (\E t \in Thread : Run(t)) \/ UNCHANGED vars
  BY <1>9, <1>12
  DEF Request, Run, vars, destroyVars, Construct, Start, BeginQuit, BeginPush, InitFails, ScriptEnds,
      Prepare, Announce, RunEnds, Dispatch, HandleEnds, LoopEnds, Exit
<1>13. CASE \E p \in Proc : FinishRegGc(p) \/ FinishPush(p) \/ FinishQuit(p)
  BY <1>9, <1>13 DEF FinishRegGc, FinishPush, FinishQuit, destroyVars
<1> QED
  BY <1>5, <1>6, <1>7, <1>11, <1>12, <1>13 DEF Next, Finish, Destroy

-----------------------------------------------------------------------------
(* The theorems.                                                            *)

\* The inductive invariant.
IInv == TypeOK /\ ListInv /\ RunInv /\ GcInv /\ DeliveryInv /\ RegisterInv

\* The invariant holds at the start ...
LEMMA InitInv == Init => IInv
<1> SUFFICES ASSUME Init PROVE IInv
  OBVIOUS
<1>1. TypeOK
  <2>1. Idle \in Op /\ UI \in Proc
    BY DEF Op, Proc
  <2>2. op \in [Proc -> Op] /\ dest \in [Msg -> Proc]
    BY <2>1 DEF Init
  <2>3. queue \in [Thread -> Seq(Msg)] /\ elementData \in Seq(Thread)
    BY DEF Init
  <2>4. /\ pc \in [Thread -> {"absent", "new", "script", "prepare", "announce", "run", "loop",
                             "handle", "exit", "dead"}]
        /\ isRunning \in [Thread -> BOOLEAN]
        /\ mGc \in [Thread -> BOOLEAN]
        /\ handler \in [Thread -> BOOLEAN]
        /\ quitting \in [Thread -> BOOLEAN]
        /\ current \in [Thread -> Msg \union {NoMsg}]
        /\ outcome \in [Msg -> {"unsent", "refused", "sending", "queued", "handled", "lost"}]
        /\ failed \in [Thread -> BOOLEAN]
        /\ stopped \in [Thread -> BOOLEAN]
        /\ early \in [Thread -> BOOLEAN]
    BY DEF Init
  <2>5. /\ size \in Nat /\ modCount \in Nat /\ cursor \in Nat /\ limit \in Nat /\ expected \in Nat
        /\ phase \in {"alive", "destroying", "destroyed", "crashed"}
        /\ raced \in BOOLEAN /\ due \in SUBSET Thread
    BY DEF Init
  <2> QED BY <2>2, <2>3, <2>4, <2>5 DEF TypeOK
<1>2. ListInv /\ RunInv /\ GcInv
  BY DEF Init, ListInv, RunInv, GcInv, Idle
<1>3. DeliveryInv
  BY LuaThreadAssumption DEF Init, DeliveryInv, QueuedOnce, LossNeedsQuit, Idle
<1>4. RegisterInv
  BY DEF Init, RegisterInv, AddInv, Idle
<1> QED BY <1>1, <1>2, <1>3, <1>4 DEF IInv

\* ... and survives every step ...
LEMMA StepInv == IInv /\ [Next]_vars => IInv'
<1> SUFFICES ASSUME IInv, [Next]_vars PROVE IInv'
  OBVIOUS
<1>1. TypeOK'
  BY TypeStep DEF IInv
<1>2. ListInv' /\ RunInv' /\ GcInv' /\ DeliveryInv' /\ RegisterInv'
  BY <1>1, ListStep, RunStep, GcStep, DeliveryStep, RegisterStep DEF IInv
<1> QED BY <1>1, <1>2 DEF IInv

\* ... so it holds always.
LEMMA Invariance == Spec => []IInv
BY InitInv, StepInv, PTL DEF Spec

\* Every variable has its type, for any number of threads and requests: among
\* others, nobody ever calls quit() on something that is not a thread of the list.
THEOREM TypeCorrect == Spec => []TypeOK
<1>1. IInv => TypeOK
  BY DEF IInv
<1> QED BY <1>1, Invariance, PTL

\* LuaThread.push and quit look at isRunning with no lock: wherever it is true there
\* is a Handler, on a Looper nobody has told to quit, of a thread that is in its
\* function run, its Looper or a handler.
THEOREM RunningServes == Spec => []RunningIsServable
<1>1. IInv => RunningIsServable
  BY DEF IInv, RunInv, RunningIsServable, Serving
<1> QED BY <1>1, Invariance, PTL

\* What push sends is lost only when the thread it was sent to has been stopped.
THEOREM LossOnlyByQuit == Spec => []LossNeedsQuit
<1>1. IInv => LossNeedsQuit
  BY DEF IInv, DeliveryInv
<1> QED BY <1>1, Invariance, PTL

\* No request is queued twice, or in the wrong Looper, or queued again while it is
\* being handled.
THEOREM HandledAtMostOnce == Spec => []QueuedOnce
<1>1. IInv => QueuedOnce
  BY DEF IInv, DeliveryInv
<1> QED BY <1>1, Invariance, PTL

\* A thread on which gc() has been called does not run, unless the call came before
\* the thread had set isRunning.
THEOREM GcStopsThreads == Spec => []GcStops
<1>1. IInv => GcStops
  BY DEF IInv, GcInv, GcStops
<1> QED BY <1>1, Invariance, PTL

\* onDestroy reaches every thread that had been registered when its loop began, as
\* long as no two threads were ever inside the unlocked gcList.add at once.
THEOREM DestroyReachesAll == Spec => []GcReachesRegistered
<1>1. IInv => GcReachesRegistered
  BY DEF IInv, RegisterInv, GcReachesRegistered
<1> QED BY <1>1, Invariance, PTL

-----------------------------------------------------------------------------
(* LuaThread implements CallService.                                        *)

\* A thread that serves calls has announced itself and has not been closed behind
\* its callers' backs, its Handler has a message exactly while it handles one, and
\* a request is on its way only to a thread that has been seen running.
ServiceInv ==
  /\ \A t \in Thread :
       /\ pc[t] \in Serving => isRunning[t] \/ stopped[t]
       /\ pc[t] = "handle" <=> current[t] \in Msg
       /\ current[t] \notin Msg => current[t] = NoMsg
  /\ \A p \in Proc : op[p].do = "push" => isRunning[op[p].to] \/ stopped[op[p].to]

\* A thread that runs goes on running until it is stopped.
LEMMA RunningStays ==
  ASSUME TypeOK, ListInv, RunInv, [Next]_vars, NEW t \in Thread
  PROVE  isRunning[t] \/ stopped[t] => isRunning'[t] \/ stopped'[t]
<1>1. ASSUME NEW p \in Proc, NEW u \in Thread, NEW what \in {"quit", "gc"}, QuitTest(p, u, what)
      PROVE  isRunning[t] => isRunning'[t] \/ stopped'[t]
  <2>1. CASE isRunning[u]
    <3>1. isRunning' = [isRunning EXCEPT ![u] = FALSE] /\ stopped' = [stopped EXCEPT ![u] = TRUE]
      BY <1>1, <2>1 DEF QuitTest
    <3> QED BY <3>1 DEF TypeOK
  <2>2. CASE ~isRunning[u]
    BY <1>1, <2>2 DEF QuitTest
  <2> QED BY <2>1, <2>2
<1>2. CASE \E p \in Proc, u \in Thread : BeginQuit(p, u)
  BY <1>1, <1>2, RunningStep DEF BeginQuit
<1>3. CASE \E u \in Thread : ScriptEnds(u) \/ HandleEnds(u)
  BY <1>1, <1>3, RunningStep DEF ScriptEnds, HandleEnds, Proc
<1>4. CASE GcNext
  <2>1. elementData[cursor + 1] \in Thread /\ QuitTest(UI, elementData[cursor + 1], "gc")
    BY <1>4 DEF GcNext, TypeOK, ListInv, HasNext
  <2> QED BY <1>1, <2>1, RunningStep DEF Proc
<1>5. CASE \E u \in Thread : Announce(u)
  BY <1>5, RunningStep DEF TypeOK, Announce
<1>6. CASE \E u \in Thread : Exit(u)
  <2>1. PICK u \in Thread : Exit(u)
    BY <1>6
  <2>2. ~isRunning[u]
    BY <2>1 DEF Exit, RunInv, Serving
  <2>3. isRunning[t] => isRunning'[t]
    BY <2>1, <2>2 DEF TypeOK, Exit
  <2> QED BY <2>3, RunningStep
<1>7. CASE UNCHANGED isRunning
  BY <1>7, RunningStep
<1> QED
  BY <1>2, <1>3, <1>4, <1>5, <1>6, <1>7
  DEF Next, Request, Finish, Run, Destroy, vars, Construct, Start, BeginPush, FinishRegGc, FinishPush,
      FinishQuit, MissHandler, InitFails, Prepare, RunEnds, Dispatch, LoopEnds, BeginDestroy, NextFails,
      EndDestroy

\* A thread begins to serve when it has announced itself; its Handler gets a message
\* when it begins to handle it, and has it until it has done so.
LEMMA HandlerStep ==
  ASSUME TypeOK, [Next]_vars, NEW t \in Thread
  PROVE  /\ pc'[t] \in Serving => pc[t] \in Serving \/ isRunning'[t]
         /\ \/ pc'[t] = "handle" /\ current'[t] \in Msg
            \/ pc'[t] # "handle" /\ current'[t] = NoMsg
            \/ (pc'[t] = "handle" <=> pc[t] = "handle") /\ current'[t] = current[t]
<1>1. CASE \E p \in Proc, u \in Thread : Construct(p, u) \/ Start(p, u)
  BY <1>1 DEF TypeOK, Serving, Construct, Start, looperVars
<1>2. CASE \E u \in Thread : InitFails(u) \/ ScriptEnds(u) \/ Prepare(u) \/ RunEnds(u) \/ LoopEnds(u) \/ Exit(u)
  BY <1>2 DEF TypeOK, Serving, AfterScript, InitFails, ScriptEnds, Prepare, RunEnds, LoopEnds, Exit, looperVars
<1>3. CASE \E u \in Thread : Announce(u)
  BY <1>3 DEF TypeOK, Serving, Announce, looperVars
<1>4. CASE \E u \in Thread : Dispatch(u)
  <2>1. PICK u \in Thread : Dispatch(u)
    BY <1>4
  <2>2. Head(queue[u]) \in Msg
    BY <2>1 DEF TypeOK, Dispatch
  <2> QED BY <2>1, <2>2 DEF TypeOK, Serving, Dispatch
<1>5. CASE \E u \in Thread : HandleEnds(u)
  BY <1>5 DEF TypeOK, Serving, HandleEnds
<1>6. CASE UNCHANGED <<pc, current>>
  BY <1>6
<1> QED
  BY <1>1, <1>2, <1>3, <1>4, <1>5, <1>6
  DEF Next, Request, Finish, Run, Destroy, vars, looperVars, BeginQuit, BeginPush, FinishRegGc, FinishPush,
      FinishQuit, MissHandler, BeginDestroy, NextFails, GcNext, EndDestroy

\* ServiceInv is an invariant.
LEMMA ServiceStep ==
  ASSUME IInv, ServiceInv, [Next]_vars
  PROVE  ServiceInv'
<1> USE DEF IInv
<1>1. ASSUME NEW t \in Thread, pc'[t] \in Serving
      PROVE  isRunning'[t] \/ stopped'[t]
  BY <1>1, RunningStays, HandlerStep DEF ServiceInv
<1>2. ASSUME NEW t \in Thread
      PROVE  /\ pc'[t] = "handle" <=> current'[t] \in Msg
             /\ current'[t] \notin Msg => current'[t] = NoMsg
  BY <1>2, HandlerStep, LuaThreadAssumption DEF ServiceInv
<1>3. ASSUME NEW p \in Proc, op'[p].do = "push"
      PROVE  isRunning'[op'[p].to] \/ stopped'[op'[p].to]
  <2>1. CASE op'[p] = op[p]
    <3>1. op[p].to \in Thread
      BY <1>3, <2>1, OpFields DEF TypeOK
    <3> QED BY <1>3, <2>1, <3>1, RunningStays DEF ServiceInv
  <2>2. CASE \E t \in Thread, m \in Msg :
               BeginPush(p, t, m) /\ op'[p] = [do |-> "push", to |-> t, msg |-> m]
    <3>1. PICK t \in Thread, m \in Msg :
               BeginPush(p, t, m) /\ op'[p] = [do |-> "push", to |-> t, msg |-> m]
      BY <2>2
    <3>2. op[p] = Idle /\ op'[p] # Idle
      <4>1. op'[p].do # Idle.do
        BY <3>1 DEF Idle
      <4> QED BY <3>1, <4>1 DEF BeginPush, CanAct
    <3>3. isRunning[t]
      BY <3>1, <3>2 DEF BeginPush
    <3>4. isRunning' = isRunning
      BY <3>1 DEF BeginPush
    <3> QED BY <3>1, <3>3, <3>4
  <2> QED BY <1>3, <2>1, <2>2, OpStep
<1> QED BY <1>1, <1>2, <1>3 DEF ServiceInv

\* The service a thread presents changes with three of its variables only ...
LEMMA SameState ==
  UNCHANGED <<isRunning, stopped, quitting>> => serviceState' = serviceState
BY DEF serviceState

\* ... and the state of a request with two.
LEMMA SameOutcome ==
  UNCHANGED <<outcome, current>> => requestOutcome' = requestOutcome
BY DEF requestOutcome

\* A request some Handler has is that of one thread, the one it was sent to.
LEMMA RequestIs ==
  ASSUME IInv, NEW m \in Msg
  PROVE  /\ \A t \in Thread : current[t] = m =>
               requestOutcome[m] = "started" /\ outcome[m] = "queued" /\ dest[m] = t
         /\ outcome[m] # "queued" => \A t \in Thread : current[t] # m
         /\ (\A t \in Thread : current[t] # m) =>
               requestOutcome[m] = IF outcome[m] \in {"sending", "queued"} THEN "pending" ELSE outcome[m]
         /\ requestOutcome[m] = "started" => \E t \in Thread : current[t] = m
<1>1. \A t \in Thread : current[t] = m => outcome[m] = "queued" /\ dest[m] = t
  BY DEF IInv, DeliveryInv
<1>2. outcome[m] # "started"
  BY DEF IInv, TypeOK
<1> QED BY <1>1, <1>2 DEF requestOutcome

\* What quit() does for the service: it closes one that is up.
LEMMA QuitCloses ==
  ASSUME TypeOK, RunInv, NEW p \in Proc, NEW t \in Thread, NEW what \in {"quit", "gc"},
         QuitTest(p, t, what), UNCHANGED quitting
  PROVE  \/ serviceState' = serviceState
         \/ serviceState[t] = "up" /\ serviceState' = [serviceState EXCEPT ![t] = "closing"]
<1>1. CASE isRunning[t]
  <2>1. isRunning' = [isRunning EXCEPT ![t] = FALSE] /\ stopped' = [stopped EXCEPT ![t] = TRUE]
    BY <1>1 DEF QuitTest
  <2>2. ~stopped[t] /\ ~quitting[t]
    BY <1>1 DEF RunInv
  <2>3. serviceState[t] = "up"
    BY <1>1, <2>2 DEF serviceState
  <2>4. \A u \in Thread : serviceState'[u] = IF u = t THEN "closing" ELSE serviceState[u]
    BY <1>1, <2>1, <2>2 DEF TypeOK, serviceState
  <2>5. serviceState' = [serviceState EXCEPT ![t] = "closing"]
    BY <2>4 DEF serviceState
  <2> QED BY <2>3, <2>5
<1>2. CASE ~isRunning[t]
  BY <1>2, SameState DEF QuitTest
<1> QED BY <1>1, <1>2

\* A thread is open to its callers when it has set isRunning.
LEMMA AnnounceOpens ==
  ASSUME IInv, NEW t \in Thread, Announce(t)
  PROVE  Service!Open(t)
<1>1. /\ isRunning' = [isRunning EXCEPT ![t] = TRUE]
      /\ UNCHANGED <<stopped, quitting, outcome, current, dest>>
  BY DEF Announce, looperVars, callVars
<1>2. ~isRunning[t] /\ ~stopped[t] /\ ~quitting[t]
  BY DEF Announce, IInv, RunInv, Serving, PastAnnounce
<1>3. serviceState[t] = "down"
  BY <1>2 DEF serviceState
<1>4. \A u \in Thread : serviceState'[u] = IF u = t THEN "up" ELSE serviceState[u]
  BY <1>1, <1>2 DEF IInv, TypeOK, serviceState
<1>5. serviceState' = [serviceState EXCEPT ![t] = "up"]
  BY <1>4 DEF serviceState
<1> QED BY <1>1, <1>3, <1>5, SameOutcome DEF Service!Open

\* A request that passes the test of isRunning is pending, the other is refused.
LEMMA PushSends ==
  ASSUME IInv, NEW p \in Proc, NEW t \in Thread, NEW m \in Msg, BeginPush(p, t, m)
  PROVE  Service!Send(t, m)
<1>1. /\ dest' = [dest EXCEPT ![m] = t]
      /\ outcome' = [outcome EXCEPT ![m] = IF isRunning[t] THEN "sending" ELSE "refused"]
      /\ UNCHANGED <<isRunning, stopped, quitting, current>>
      /\ outcome[m] = "unsent"
  BY DEF BeginPush, looperVars
<1>2. serviceState[t] = "up" <=> isRunning[t]
  BY DEF IInv, RunInv, serviceState
<1>3. \A u \in Thread : current[u] # m
  BY <1>1, RequestIs
<1>4. requestOutcome[m] = "unsent"
  BY <1>1, <1>3 DEF requestOutcome
<1>5. \A n \in Msg : requestOutcome'[n] = IF n # m THEN requestOutcome[n]
                                          ELSE IF isRunning[t] THEN "pending" ELSE "refused"
  BY <1>1, <1>3 DEF IInv, TypeOK, requestOutcome
<1> DEFINE answer == IF serviceState[t] = "up" THEN "pending" ELSE "refused"
<1>6. \A n \in Msg : requestOutcome'[n] = IF n = m THEN answer ELSE requestOutcome[n]
  BY <1>2, <1>5
<1>8. requestOutcome' = [requestOutcome EXCEPT ![m] = answer]
  <2> HIDE DEF answer
  <2> QED BY <1>6 DEF requestOutcome
<1>7. serviceState' = serviceState
  BY <1>1, SameState
<1> QED BY <1>1, <1>4, <1>7, <1>8 DEF Service!Send

\* The message is delivered, or lost to a Looper that quits; a Handler that cannot be
\* seen yet turns it down.
LEMMA PushArrives ==
  ASSUME IInv, NEW p \in Proc, FinishPush(p)
  PROVE  Service!Shut(op[p].to) \/ UNCHANGED Service!vars
<1> DEFINE t == op[p].to
           m == op[p].msg
<1>1. t \in Thread /\ m \in Msg
  BY OpFields DEF FinishPush, IInv, TypeOK
<1>2. outcome[m] = "sending" /\ dest[m] = t
  BY DEF FinishPush, IInv, DeliveryInv
<1>3. \A u \in Thread : current[u] # m
  BY <1>1, <1>2, RequestIs
<1>4. UNCHANGED <<isRunning, stopped, quitting, current, dest>>
  BY DEF FinishPush
<1>5. serviceState' = serviceState
  BY <1>4, SameState
<1>6. CASE ~quitting[t]
  <2>1. outcome' = [outcome EXCEPT ![m] = "queued"]
    BY <1>6 DEF FinishPush, Accepts
  <2>2. \A n \in Msg : requestOutcome'[n] = requestOutcome[n]
    BY <1>1, <1>2, <1>3, <1>4, <2>1 DEF IInv, TypeOK, requestOutcome
  <2>3. requestOutcome' = requestOutcome
    BY <2>2 DEF requestOutcome
  <2> QED BY <1>4, <1>5, <2>3 DEF Service!vars
<1>7. CASE quitting[t]
  <2>1. outcome' = [outcome EXCEPT ![m] = "lost"]
    BY <1>7 DEF FinishPush, Accepts
  <2>2. \A n \in Msg : requestOutcome'[n] = IF n \in {m} THEN "lost" ELSE requestOutcome[n]
    BY <1>1, <1>3, <1>4, <2>1 DEF IInv, TypeOK, requestOutcome
  <2>3. requestOutcome' = [n \in Msg |-> IF n \in {m} THEN "lost" ELSE requestOutcome[n]]
    BY <2>2 DEF requestOutcome
  <2>4. {m} \in SUBSET {n \in Msg : dest[n] = t /\ requestOutcome[n] = "pending"}
    BY <1>1, <1>2, <1>3 DEF requestOutcome
  <2>5. serviceState[t] = "closed" /\ serviceState' = [serviceState EXCEPT ![t] = "closed"]
    BY <1>1, <1>5, <1>7 DEF serviceState
  <2> QED BY <1>4, <2>3, <2>4, <2>5 DEF Service!Shut
<1> QED BY <1>6, <1>7

\* Looper.quit() shuts the service and drops the requests it has not started.
LEMMA QuitShuts ==
  ASSUME IInv, NEW p \in Proc, FinishQuit(p)
  PROVE  Service!Shut(op[p].to)
<1> DEFINE t == op[p].to
           lost == {m \in Msg : m \in Range(queue[t])}
<1>1. t \in Thread /\ stopped[t]
  BY OpFields DEF FinishQuit, IInv, TypeOK, RunInv
<1>2. /\ quitting' = [quitting EXCEPT ![t] = TRUE]
      /\ outcome' = [m \in Msg |-> IF m \in Range(queue[t]) THEN "lost" ELSE outcome[m]]
      /\ UNCHANGED <<isRunning, stopped, current, dest>>
  BY DEF FinishQuit, LooperOf
<1>3. ASSUME NEW m \in lost
      PROVE  /\ dest[m] = t /\ outcome[m] = "queued"
             /\ \A u \in Thread : current[u] # m
             /\ requestOutcome[m] = "pending"
  <2>1. queue[t] \in Seq(Msg)
    BY <1>1 DEF IInv, TypeOK
  <2>2. PICK i \in 1..Len(queue[t]) : m = queue[t][i]
    BY <1>3, <2>1 DEF Range
  <2>3. outcome[m] = "queued" /\ dest[m] = t /\ current[t] # m
    BY <1>1, <2>2 DEF IInv, DeliveryInv, QueuedOnce
  <2>4. \A u \in Thread : current[u] # m
    BY <1>3, <2>3, RequestIs
  <2> QED BY <2>3, <2>4 DEF requestOutcome
<1>4. lost \in SUBSET {m \in Msg : dest[m] = t /\ requestOutcome[m] = "pending"}
  BY <1>3
<1>5. ASSUME NEW m \in Msg PROVE requestOutcome'[m] = IF m \in lost THEN "lost" ELSE requestOutcome[m]
  BY <1>2, <1>3 DEF requestOutcome
<1>6. requestOutcome' = [m \in Msg |-> IF m \in lost THEN "lost" ELSE requestOutcome[m]]
  BY <1>5 DEF requestOutcome
<1>7. serviceState[t] \in {"closing", "closed"}
  BY <1>1 DEF serviceState
<1>8. \A u \in Thread : serviceState'[u] = IF u = t THEN "closed" ELSE serviceState[u]
  BY <1>1, <1>2 DEF IInv, TypeOK, serviceState
<1>9. serviceState' = [serviceState EXCEPT ![t] = "closed"]
  BY <1>8 DEF serviceState
<1> QED BY <1>2, <1>4, <1>6, <1>7, <1>9 DEF Service!Shut

\* A caller that does not find the Handler withdraws its request.
LEMMA MissWithdraws ==
  ASSUME IInv, ServiceInv, NEW p \in Proc, MissHandler(p)
  PROVE  Service!Withdraw(op[p].to, op[p].msg) \/ UNCHANGED Service!vars
<1>1. UNCHANGED <<isRunning, stopped, quitting, current, dest>>
  BY DEF MissHandler, looperVars
<1>2. serviceState' = serviceState
  BY <1>1, SameState
<1>3. CASE op[p].do = "push"
  <2> DEFINE t == op[p].to
             m == op[p].msg
  <2>1. t \in Thread /\ m \in Msg
    BY <1>3, OpFields DEF IInv, TypeOK
  <2>2. outcome[m] = "sending" /\ dest[m] = t
    BY <1>3 DEF IInv, DeliveryInv
  <2>3. \A u \in Thread : current[u] # m
    BY <2>1, <2>2, RequestIs
  <2>4. outcome' = [outcome EXCEPT ![m] = "refused"]
    BY <1>3, <2>1 DEF MissHandler, IInv, TypeOK
  <2>5. \A n \in Msg : requestOutcome'[n] = IF n = m THEN "refused" ELSE requestOutcome[n]
    BY <1>1, <2>1, <2>3, <2>4 DEF IInv, TypeOK, requestOutcome
  <2>6. requestOutcome' = [requestOutcome EXCEPT ![m] = "refused"]
    BY <2>5 DEF requestOutcome
  <2>7. requestOutcome[m] = "pending"
    BY <2>1, <2>2, <2>3 DEF requestOutcome
  <2>8. serviceState[t] # "down"
    BY <1>3, <2>1 DEF ServiceInv, serviceState
  <2> QED BY <1>1, <1>2, <2>2, <2>6, <2>7, <2>8 DEF Service!Withdraw
<1>4. CASE op[p].do # "push"
  <2>1. outcome' = outcome
    BY <1>4 DEF MissHandler, IInv, TypeOK
  <2> QED BY <1>1, <1>2, <2>1, SameOutcome DEF Service!vars
<1> QED BY <1>3, <1>4

\* The Looper hands its Handler the oldest request, and no other meanwhile.
LEMMA DispatchServes ==
  ASSUME IInv, ServiceInv, NEW t \in Thread, Dispatch(t)
  PROVE  Service!Serve(t, Head(queue[t]))
<1> DEFINE m == Head(queue[t])
<1>1. /\ current' = [current EXCEPT ![t] = m]
      /\ UNCHANGED <<isRunning, stopped, quitting, outcome, dest>>
      /\ ~quitting[t] /\ pc[t] = "loop"
  BY DEF Dispatch, callVars
<1>2. /\ queue[t] \in Seq(Msg) /\ queue[t] # << >>
      /\ current \in [Thread -> Msg \union {NoMsg}]
  BY DEF Dispatch, IInv, TypeOK
<1>3. m \in Msg /\ m = queue[t][1] /\ 1 \in 1..Len(queue[t])
  BY <1>2
<1>4. outcome[m] = "queued" /\ dest[m] = t /\ current[t] # m
  BY <1>3 DEF IInv, DeliveryInv, QueuedOnce
<1>5. \A u \in Thread : current[u] # m
  BY <1>3, <1>4, RequestIs
<1>6. requestOutcome[m] = "pending"
  BY <1>3, <1>4, <1>5 DEF requestOutcome
<1>7. current[t] \notin Msg
  BY <1>1 DEF ServiceInv
<1>8. serviceState[t] \in {"up", "closing"}
  BY <1>1 DEF ServiceInv, Serving, serviceState
<1>9. \A n \in Msg : dest[n] = t => requestOutcome[n] # "started"
  BY <1>7, RequestIs
<1>10. \A n \in Msg : (\E u \in Thread : current'[u] = n) <=> n = m \/ (\E u \in Thread : current[u] = n)
  BY <1>1, <1>2, <1>7
<1>11. \A n \in Msg : requestOutcome'[n] = IF n = m THEN "started" ELSE requestOutcome[n]
  BY <1>1, <1>10 DEF requestOutcome
<1>12. requestOutcome' = [requestOutcome EXCEPT ![m] = "started"]
  BY <1>11 DEF requestOutcome
<1>13. serviceState' = serviceState
  BY <1>1, SameState
<1> QED BY <1>1, <1>4, <1>6, <1>8, <1>9, <1>12, <1>13 DEF Service!Serve

\* A handler that returns completes its request; one that quits its thread closes it.
LEMMA HandleCompletes ==
  ASSUME IInv, ServiceInv, NEW t \in Thread, HandleEnds(t)
  PROVE  Service!Complete(t, current[t])
<1> DEFINE m == current[t]
<1>1. /\ outcome' = [outcome EXCEPT ![m] = "handled"]
      /\ current' = [current EXCEPT ![t] = NoMsg]
      /\ UNCHANGED <<quitting, dest>>
      /\ UNCHANGED <<isRunning, stopped, op>> \/ QuitTest(t, t, "quit")
  BY DEF HandleEnds
<1>2. m \in Msg /\ NoMsg \notin Msg /\ t \in Proc
  BY LuaThreadAssumption DEF HandleEnds, ServiceInv, Proc
<1>3. requestOutcome[m] = "started" /\ dest[m] = t
  BY <1>2, RequestIs
<1>4. \A u \in Thread : current[u] = m => u = t
  BY <1>2, RequestIs
<1>5. \A n \in Msg : (\E u \in Thread : current'[u] = n) <=> n # m /\ (\E u \in Thread : current[u] = n)
  BY <1>1, <1>2, <1>4 DEF IInv, TypeOK
<1>6. \A n \in Msg : requestOutcome'[n] = IF n = m THEN "handled" ELSE requestOutcome[n]
  BY <1>1, <1>2, <1>5 DEF IInv, TypeOK, requestOutcome
<1>7. requestOutcome' = [requestOutcome EXCEPT ![m] = "handled"]
  BY <1>6 DEF requestOutcome
<1>8. \/ serviceState' = serviceState
      \/ serviceState[t] = "up" /\ serviceState' = [serviceState EXCEPT ![t] = "closing"]
  BY <1>1, <1>2, SameState, QuitCloses DEF IInv
<1> QED BY <1>1, <1>3, <1>7, <1>8 DEF Service!Complete

\* A step that does nothing but quit(), up to its test of isRunning, closes a thread
\* or changes nothing for the callers.
LEMMA QuitOrNothing ==
  ASSUME IInv, NEW p \in Proc, NEW t \in Thread, NEW what \in {"quit", "gc"},
         QuitTest(p, t, what), UNCHANGED <<quitting, outcome, current, dest>>
  PROVE  Service!Close(t) \/ UNCHANGED Service!vars
BY QuitCloses, SameOutcome DEF IInv, Service!Close, Service!vars

\* Every step of LuaThread is one of the service, or nothing to its callers.
LEMMA StepImplements ==
  ASSUME IInv, ServiceInv, [Next]_vars
  PROVE  Service!Next \/ UNCHANGED Service!vars
<1>1. CASE \E p \in Proc, t \in Thread, m \in Msg : BeginPush(p, t, m)
  BY <1>1, PushSends DEF Service!Next
<1>2. CASE \E p \in Proc, t \in Thread : BeginQuit(p, t)
  <2>1. PICK p \in Proc, t \in Thread : BeginQuit(p, t)
    BY <1>2
  <2>2. QuitTest(p, t, "quit") /\ UNCHANGED <<quitting, outcome, current, dest>>
    BY <2>1 DEF BeginQuit, looperVars, callVars
  <2> QED BY <2>2, QuitOrNothing DEF Service!Next
<1>3. CASE \E p \in Proc : FinishPush(p) \/ FinishQuit(p) \/ MissHandler(p)
  <2>1. PICK p \in Proc : FinishPush(p) \/ FinishQuit(p) \/ MissHandler(p)
    BY <1>3
  <2>2. op[p].do \in {"push", "quit", "gc"}
    BY <2>1 DEF FinishPush, FinishQuit, MissHandler
  <2>3. op[p].to \in Thread /\ (op[p].do = "push" => op[p].msg \in Msg)
    BY <2>2, OpFields DEF IInv, TypeOK
  <2>4. CASE FinishPush(p) \/ FinishQuit(p)
    BY <2>3, <2>4, PushArrives, QuitShuts DEF Service!Next
  <2>5. CASE MissHandler(p)
    <3>1. op[p].do # "push" => UNCHANGED <<isRunning, stopped, quitting, outcome, current, dest>>
      BY <2>5 DEF MissHandler, looperVars, IInv, TypeOK
    <3>2. op[p].do # "push" => UNCHANGED Service!vars
      BY <3>1, SameState, SameOutcome DEF Service!vars
    <3> QED BY <2>3, <2>5, <3>2, MissWithdraws DEF Service!Next
  <2> QED BY <2>1, <2>4, <2>5
<1>4. CASE \E t \in Thread : ScriptEnds(t)
  <2>1. PICK t \in Thread : ScriptEnds(t)
    BY <1>4
  <2>2. /\ UNCHANGED <<quitting, outcome, current, dest>>
        /\ UNCHANGED <<isRunning, stopped, op>> \/ QuitTest(t, t, "quit")
    BY <2>1 DEF ScriptEnds, looperVars, callVars
  <2> QED BY <2>2, QuitOrNothing, SameState, SameOutcome DEF Proc, Service!Next, Service!vars
<1>5. CASE GcNext
  <2>1. elementData[cursor + 1] \in Thread /\ QuitTest(UI, elementData[cursor + 1], "gc")
    BY <1>5 DEF GcNext, IInv, TypeOK, ListInv, HasNext
  <2>2. UNCHANGED <<quitting, outcome, current, dest>>
    BY <1>5 DEF GcNext, looperVars, callVars
  <2> QED BY <2>1, <2>2, QuitOrNothing DEF Proc, Service!Next
<1>6. CASE \E t \in Thread : Announce(t)
  BY <1>6, AnnounceOpens DEF Service!Next
<1>7. CASE \E t \in Thread : Dispatch(t)
  <2>1. PICK t \in Thread : Dispatch(t)
    BY <1>7
  <2>2. Head(queue[t]) \in Msg
    BY <2>1 DEF Dispatch, IInv, TypeOK
  <2> QED BY <2>1, <2>2, DispatchServes DEF Service!Next
<1>8. CASE \E t \in Thread : HandleEnds(t)
  <2>1. PICK t \in Thread : HandleEnds(t)
    BY <1>8
  <2>2. current[t] \in Msg
    BY <2>1 DEF HandleEnds, ServiceInv
  <2> QED BY <2>1, <2>2, HandleCompletes DEF Service!Next
<1>9. CASE \E t \in Thread : Exit(t)
  <2>1. PICK t \in Thread : Exit(t)
    BY <1>9
  <2>2. ~isRunning[t]
    BY <2>1 DEF Exit, IInv, RunInv, Serving
  <2>3. isRunning' = isRunning
    BY <2>1, <2>2 DEF Exit, IInv, TypeOK
  <2> QED BY <2>1, <2>3, SameState, SameOutcome DEF Exit, looperVars, callVars, Service!vars
<1>10. CASE UNCHANGED <<isRunning, stopped, quitting, outcome, current, dest>>
  BY <1>10, SameState, SameOutcome DEF Service!vars
<1> QED
  BY <1>1, <1>2, <1>3, <1>4, <1>5, <1>6, <1>7, <1>8, <1>9, <1>10
  DEF Next, Request, Finish, Run, Destroy, vars, looperVars, callVars, Construct, Start, FinishRegGc,
      InitFails, Prepare, RunEnds, LoopEnds, BeginDestroy, NextFails, EndDestroy

\* At the start every thread is down and no request has been made.
LEMMA InitImplements == Init => Service!Init
BY LuaThreadAssumption DEF Init, Service!Init, serviceState, requestOutcome

\* Whoever calls a LuaThread gets what CallService promises: one that is up accepts a
\* request, one that is not refuses it; requests are served one at a time and each at
\* most once; and one that was accepted is dropped only by a thread that closes.
THEOREM ThreadImplements == Spec => ImplementsCallService
<1>1. Init => ServiceInv
  BY LuaThreadAssumption DEF Init, ServiceInv, Serving, Idle
<1>2. IInv /\ ServiceInv /\ [Next]_vars => ServiceInv'
  BY ServiceStep
<1>3. IInv /\ ServiceInv /\ [Next]_vars => [Service!Next]_(Service!vars)
  BY StepImplements
<1>4. Spec => []ServiceInv
  BY <1>1, <1>2, Invariance, PTL DEF Spec
<1> QED BY <1>3, <1>4, Invariance, InitImplements, PTL DEF Spec, ImplementsCallService, Service!Spec
=============================================================================
