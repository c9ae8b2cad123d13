------------------------------ MODULE LuaThread ------------------------------
(***************************************************************************)
(* The script threads of an activity: com.androlua.LuaThread, the activity *)
(* that owns them (the gcList of LuaActivity, its onDestroy) and the       *)
(* android Looper each looping thread serves its calls from.               *)
(*                                                                         *)
(* A LuaThread runs a script to its end; a looping one then serves call()  *)
(* and set() requests of other threads until quit() stops its Looper.  The *)
(* field isRunning is the only thing the callers look at: it is plain (not *)
(* volatile, no lock), set by the thread after its Handler exists, and     *)
(* cleared by whoever quits it.  Every call is two steps of the caller, the *)
(* read of isRunning and what it does to the Looper, and every other       *)
(* process may run in between.  As nothing orders the two plain writes for  *)
(* other threads, one that has seen isRunning may still find no Handler.   *)
(***************************************************************************)
EXTENDS Naturals, Sequences, SequencesExt

CONSTANTS
  UI,          \* the activity's main thread
  Thread,      \* the LuaThread objects a run may construct
  Looping,     \* those constructed with isLoop = true
  FromFunc,    \* those constructed from a LuaObject function, not a source text
  Msg,         \* the requests a run may push, each at most once
  Chunk,       \* those that carry code to load (what = 0 or 2), not a call or a set
  NoMsg        \* no message

ASSUME LuaThreadAssumption ==
  /\ UI \notin Thread
  /\ Looping \subseteq Thread
  /\ FromFunc \subseteq Thread
  /\ Chunk \subseteq Msg
  /\ NoMsg \notin Msg

VARIABLES
  pc,          \* where each thread is in LuaThread.run()
  isRunning,   \* the field isRunning
  mGc,         \* the field mGc
  handler,     \* TRUE once the field handler holds the thread's Handler
  quitting,    \* the thread's Looper has been told to quit
  queue,       \* the messages of the thread's Looper, oldest first
  current,     \* the message its Handler is busy with, or NoMsg
  op,          \* the call each process is in the middle of
  elementData, \* LuaActivity.gcList, an ArrayList: its array,
  size,        \* the number of elements of the array that are in the list,
  modCount,    \* and the number of changes made to it
  phase,       \* the activity: alive, in onDestroy, past it, or crashed
  cursor,      \* onDestroy's iterator: how many elements it has returned,
  limit,       \* the size of the list it was made for,
  expected,    \* and the modCount it was made for
  outcome,     \* what became of each request
  dest,        \* the thread each request was pushed to, or UI
  failed,      \* history: a quit() of the thread found no Handler
  stopped,     \* history: a quit() found isRunning true and cleared it
  early,       \* history: gc() came before the thread had set isRunning
  raced,       \* history: two processes were inside gcList.add at once
  due          \* history: the registered threads when onDestroy began its loop

looperVars == <<handler, quitting, queue, current>>
listVars == <<elementData, size, modCount>>
destroyVars == <<phase, cursor, limit, expected, early, due>>
callVars == <<outcome, dest, failed>>
vars == <<pc, isRunning, mGc, looperVars, op, listVars, destroyVars, callVars, stopped, raced>>

Proc == Thread \union {UI}
Idle == [do |-> "idle"]

Op == {Idle}
      \union [do : {"push"}, to : Thread, msg : Msg]
      \union [do : {"quit", "gc"}, to : Thread]
      \union [do : {"regGc"}, obj : Thread, at : Nat \ {0}]

\* The steps of run() in which the thread executes Lua code.
Executing == {"script", "run", "handle"}
\* The steps before it sets isRunning.
BeforeRunning == {"new", "script", "prepare", "announce"}

Init ==
  /\ pc = [t \in Thread |-> "absent"]
  /\ isRunning = [t \in Thread |-> FALSE]
  /\ mGc = [t \in Thread |-> FALSE]
  /\ handler = [t \in Thread |-> FALSE]
  /\ quitting = [t \in Thread |-> FALSE]
  /\ queue = [t \in Thread |-> << >>]
  /\ current = [t \in Thread |-> NoMsg]
  /\ op = [p \in Proc |-> Idle]
  /\ elementData = << >>
  /\ size = 0
  /\ modCount = 0
  /\ phase = "alive"
  /\ cursor = 0
  /\ limit = 0
  /\ expected = 0
  /\ outcome = [m \in Msg |-> "unsent"]
  /\ dest = [m \in Msg |-> UI]
  /\ failed = [t \in Thread |-> FALSE]
  /\ stopped = [t \in Thread |-> FALSE]
  /\ early = [t \in Thread |-> FALSE]
  /\ raced = FALSE
  /\ due = {}

-----------------------------------------------------------------------------
(* What a process can start when it runs Lua code of its own.  A script of  *)
(* a LuaThread reaches the activity and the other threads through globals.  *)

CanAct(p) ==
  /\ phase # "crashed"
  /\ op[p] = Idle
  /\ IF p = UI THEN phase \in {"alive", "destroyed"} ELSE pc[p] \in Executing

\* ArrayList.add stores the object behind the elements there are.
SlotTaken == size
NextSlot == size + 1

\* new LuaThread(context, src, ...): its first statement is context.regGc(this),
\* that is gcList.add(obj); new LuaThread(context, func, ...) never registers.
Construct(p, t) ==
  /\ CanAct(p)
  /\ pc[t] = "absent"
  /\ pc' = [pc EXCEPT ![t] = "new"]
  /\ IF t \in FromFunc
       THEN UNCHANGED <<op, modCount, raced>>
       ELSE /\ op' = [op EXCEPT ![p] = [do |-> "regGc", obj |-> t, at |-> NextSlot]]
            /\ modCount' = modCount + 1
            /\ raced' = (raced \/ \E q \in Proc : op[q].do = "regGc")
  /\ UNCHANGED <<isRunning, mGc, looperVars, elementData, size, destroyVars, callVars, stopped>>

\* The rest of ArrayList.add: the list has no lock, so the object goes where the
\* size read before says, and the size becomes one more than was read.
FinishRegGc(p) ==
  /\ phase # "crashed"
  /\ op[p].do = "regGc"
  /\ LET at == op[p].at
     IN /\ elementData' = IF at \in DOMAIN elementData
                            THEN [elementData EXCEPT ![at] = op[p].obj]
                            ELSE Append(elementData, op[p].obj)
        /\ size' = at
  /\ op' = [op EXCEPT ![p] = Idle]
  /\ UNCHANGED <<pc, isRunning, mGc, looperVars, modCount, destroyVars, callVars, stopped, raced>>

\* Thread.start() of a constructed thread.
Start(p, t) ==
  /\ CanAct(p)
  /\ pc[t] = "new"
  /\ pc' = [pc EXCEPT ![t] = "script"]
  /\ UNCHANGED <<isRunning, mGc, looperVars, op, listVars, destroyVars, callVars, stopped, raced>>

\* push(what, s, args) as far as its test of isRunning: a thread that does not
\* run gets no message, the activity is told "thread is not running".
BeginPush(p, t, m) ==
  /\ CanAct(p)
  /\ pc[t] # "absent"
  /\ outcome[m] = "unsent"
  /\ dest' = [dest EXCEPT ![m] = t]
  /\ IF isRunning[t]
       THEN /\ op' = [op EXCEPT ![p] = [do |-> "push", to |-> t, msg |-> m]]
            /\ outcome' = [outcome EXCEPT ![m] = "sending"]
       ELSE /\ outcome' = [outcome EXCEPT ![m] = "refused"]
            /\ UNCHANGED op
  /\ UNCHANGED <<pc, isRunning, mGc, looperVars, listVars, destroyVars, failed, stopped, raced>>

\* handler.sendMessage(message): the message goes to the end of the queue, unless
\* the Looper has been told to quit.
AlwaysOpen(t) == TRUE
Accepts(t) == ~quitting[t]

EnqueueTwice(q, m) == q \o <<m, m>>
Enqueue(q, m) == Append(q, m)

\* The rest of push, which ignores the answer of sendMessage.
FinishPush(p) ==
  /\ phase # "crashed"
  /\ op[p].do = "push"
  /\ LET t == op[p].to
         m == op[p].msg
     IN IF Accepts(t)
          THEN /\ outcome' = [outcome EXCEPT ![m] = "queued"]
               /\ queue' = [queue EXCEPT ![t] = Enqueue(@, m)]
          ELSE /\ outcome' = [outcome EXCEPT ![m] = "lost"]
               /\ UNCHANGED queue
  /\ op' = [op EXCEPT ![p] = Idle]
  /\ UNCHANGED <<pc, isRunning, mGc, handler, quitting, current, listVars, destroyVars,
                 dest, failed, stopped, raced>>

\* quit() as far as its test of isRunning, by process p for thread t (what is
\* "quit", or "gc" when gc() made the call): nothing at all unless it runs.
QuitTestKeepsRunning(p, t, what) ==
  IF isRunning[t]
    THEN /\ stopped' = [stopped EXCEPT ![t] = TRUE]
         /\ op' = [op EXCEPT ![p] = [do |-> what, to |-> t]]
         /\ UNCHANGED isRunning
    ELSE UNCHANGED <<isRunning, stopped, op>>

QuitTest(p, t, what) ==
  IF isRunning[t]
    THEN /\ isRunning' = [isRunning EXCEPT ![t] = FALSE]
         /\ stopped' = [stopped EXCEPT ![t] = TRUE]
         /\ op' = [op EXCEPT ![p] = [do |-> what, to |-> t]]
    ELSE UNCHANGED <<isRunning, stopped, op>>

BeginQuit(p, t) ==
  /\ CanAct(p)
  /\ pc[t] # "absent"
  /\ QuitTest(p, t, "quit")
  /\ UNCHANGED <<pc, mGc, looperVars, listVars, destroyVars, callVars, raced>>

\* The Looper that handler.getLooper() is: each thread has a Handler of its own.
LooperOfAny(t) == CHOOSE u \in Thread : handler[u]
LooperOf(t) == t

\* handler.getLooper().quit(): the pending messages are dropped; gc() then sets mGc.
FinishQuit(p) ==
  /\ phase # "crashed"
  /\ op[p].do \in {"quit", "gc"}
  /\ LET looper == LooperOf(op[p].to)
     IN /\ quitting' = [quitting EXCEPT ![looper] = TRUE]
        /\ outcome' = [m \in Msg |-> IF m \in Range(queue[looper]) THEN "lost" ELSE outcome[m]]
        /\ queue' = [queue EXCEPT ![looper] = << >>]
  /\ mGc' = [mGc EXCEPT ![op[p].to] = @ \/ op[p].do = "gc"]
  /\ op' = [op EXCEPT ![p] = Idle]
  /\ UNCHANGED <<pc, isRunning, handler, current, listVars, destroyVars, dest, failed, stopped, raced>>

\* The call reads handler as null: run() writes it before isRunning, but nothing
\* makes another thread see the two in that order; by the time run() has called the
\* script's function both are taken to be seen.  The NullPointerException is an error
\* of the script that called push or quit; gc() lets it leave onDestroy.
Unpublished(p) == op[p].to # p /\ pc[op[p].to] = "run"

MissHandler(p) ==
  /\ phase # "crashed"
  /\ op[p].do \in {"push", "quit", "gc"}
  /\ Unpublished(p)
  /\ outcome' = [m \in Msg |-> IF op[p].do = "push" /\ op[p].msg = m THEN "refused" ELSE outcome[m]]
  /\ failed' = [failed EXCEPT ![op[p].to] = @ \/ op[p].do # "push"]
  /\ phase' = IF op[p].do = "gc" THEN "crashed" ELSE phase
  /\ op' = [op EXCEPT ![p] = Idle]
  /\ UNCHANGED <<pc, isRunning, mGc, looperVars, listVars, cursor, limit, expected, early, due,
                 dest, stopped, raced>>

-----------------------------------------------------------------------------
(* The thread: LuaThread.run().                                             *)

CanStep(t) == phase # "crashed" /\ op[t] = Idle

\* initLua() or the script throws out of run(): sendError, and run() returns
\* without reaching the Looper.
InitFails(t) ==
  /\ CanStep(t)
  /\ pc[t] = "script"
  /\ pc' = [pc EXCEPT ![t] = "dead"]
  /\ UNCHANGED <<isRunning, mGc, looperVars, op, listVars, destroyVars, callVars, stopped, raced>>

\* run() goes on with Looper.prepare(), if the thread is a looping one.
AfterScriptNoPrepare(t) == IF t \in Looping THEN "announce" ELSE "exit"
AfterScript(t) == IF t \in Looping THEN "prepare" ELSE "exit"

\* newLuaThread(src or buffer, arg) returns.  An error in the script is caught
\* there and answered by quit(), which finds isRunning still false.
ScriptEnds(t) ==
  /\ CanStep(t)
  /\ pc[t] = "script"
  /\ pc' = [pc EXCEPT ![t] = AfterScript(t)]
  /\ \/ UNCHANGED <<isRunning, stopped, op>>
     \/ QuitTest(t, t, "quit")
  /\ UNCHANGED <<mGc, looperVars, listVars, destroyVars, callVars, raced>>

\* Looper.prepare(); handler = new ThreadHandler();
Prepare(t) ==
  /\ CanStep(t)
  /\ pc[t] = "prepare"
  /\ handler' = [handler EXCEPT ![t] = TRUE]
  /\ pc' = [pc EXCEPT ![t] = "announce"]
  /\ UNCHANGED <<isRunning, mGc, quitting, queue, current, op, listVars, destroyVars, callVars,
                 stopped, raced>>

\* isRunning = true; and the script's own function run, if it has one, is called.
Announce(t) ==
  /\ CanStep(t)
  /\ pc[t] = "announce"
  /\ isRunning' = [isRunning EXCEPT ![t] = TRUE]
  /\ pc' = [pc EXCEPT ![t] = "run"]
  /\ UNCHANGED <<mGc, looperVars, op, listVars, destroyVars, callVars, stopped, raced>>

\* runFunc("run") returns, its errors caught; Looper.loop() begins.
RunEnds(t) ==
  /\ CanStep(t)
  /\ pc[t] = "run"
  /\ pc' = [pc EXCEPT ![t] = "loop"]
  /\ UNCHANGED <<isRunning, mGc, looperVars, op, listVars, destroyVars, callVars, stopped, raced>>

\* Looper.loop() takes the oldest message and enters ThreadHandler.handleMessage.
Dispatch(t) ==
  /\ CanStep(t)
  /\ pc[t] = "loop"
  /\ ~quitting[t]
  /\ queue[t] # << >>
  /\ current' = [current EXCEPT ![t] = Head(queue[t])]
  /\ queue' = [queue EXCEPT ![t] = Tail(@)]
  /\ pc' = [pc EXCEPT ![t] = "handle"]
  /\ UNCHANGED <<isRunning, mGc, handler, quitting, op, listVars, destroyVars, callVars,
                 stopped, raced>>

\* handleMessage returns.  runFunc and setField report their errors; code that
\* was loaded by newLuaThread and fails also calls quit().
HandleEnds(t) ==
  /\ CanStep(t)
  /\ pc[t] = "handle"
  /\ pc' = [pc EXCEPT ![t] = "loop"]
  /\ outcome' = [outcome EXCEPT ![current[t]] = "handled"]
  /\ current' = [current EXCEPT ![t] = NoMsg]
  /\ \/ UNCHANGED <<isRunning, stopped, op>>
     \/ current[t] \in Chunk /\ QuitTest(t, t, "quit")
  /\ UNCHANGED <<mGc, handler, quitting, queue, listVars, destroyVars, dest, failed, raced>>

\* Looper.loop() returns once the Looper quits.
LoopEnds(t) ==
  /\ CanStep(t)
  /\ pc[t] = "loop"
  /\ quitting[t]
  /\ pc' = [pc EXCEPT ![t] = "exit"]
  /\ UNCHANGED <<isRunning, mGc, looperVars, op, listVars, destroyVars, callVars, stopped, raced>>

\* isRunning = false; the Lua state is collected and run() returns.
Exit(t) ==
  /\ CanStep(t)
  /\ pc[t] = "exit"
  /\ isRunning' = [isRunning EXCEPT ![t] = FALSE]
  /\ pc' = [pc EXCEPT ![t] = "dead"]
  /\ UNCHANGED <<mGc, looperVars, op, listVars, destroyVars, callVars, stopped, raced>>

-----------------------------------------------------------------------------
(* The activity: LuaActivity.onDestroy().                                   *)

\* onDestroy reaches its for loop, which makes the iterator of gcList.
BeginDestroy ==
  /\ phase = "alive"
  /\ op[UI] = Idle
  /\ phase' = "destroying"
  /\ limit' = size
  /\ expected' = modCount
  /\ due' = {t \in Thread \ FromFunc :
                pc[t] # "absent" /\ \A p \in Proc : op[p].do = "regGc" => op[p].obj # t}
  /\ UNCHANGED <<pc, isRunning, mGc, looperVars, op, listVars, cursor, early, callVars,
                 stopped, raced>>

\* The iterator's hasNext(): it looks at the size the list had when it was made.
HasNextOffByOne == cursor + 1 < limit
HasNext == cursor < limit

\* next() finds that another thread has changed the list: the
\* ConcurrentModificationException leaves onDestroy and the process goes down.
NextFails ==
  /\ phase = "destroying"
  /\ op[UI] = Idle
  /\ HasNext
  /\ modCount # expected
  /\ phase' = "crashed"
  /\ UNCHANGED <<pc, isRunning, mGc, looperVars, op, listVars, cursor, limit, expected, early,
                 due, callVars, stopped, raced>>

\* obj.gc() of the next element: quit(), then mGc = true.
GcNext ==
  /\ phase = "destroying"
  /\ op[UI] = Idle
  /\ HasNext
  /\ modCount = expected
  /\ cursor' = cursor + 1
  /\ LET t == elementData[cursor + 1]
     IN /\ QuitTest(UI, t, "gc")
        /\ mGc' = [mGc EXCEPT ![t] = @ \/ ~isRunning[t]]
        /\ early' = [early EXCEPT ![t] = @ \/ pc[t] \in BeforeRunning]
  /\ UNCHANGED <<pc, looperVars, listVars, phase, limit, expected, due, callVars, raced>>

\* The loop is over: runFunc("onDestroy") and the rest of onDestroy.
EndDestroy ==
  /\ phase = "destroying"
  /\ op[UI] = Idle
  /\ ~HasNext
  /\ phase' = "destroyed"
  /\ UNCHANGED <<pc, isRunning, mGc, looperVars, op, listVars, cursor, limit, expected, early,
                 due, callVars, stopped, raced>>

-----------------------------------------------------------------------------
Request(p) ==
  \/ \E t \in Thread : Construct(p, t) \/ Start(p, t) \/ BeginQuit(p, t)
  \/ \E t \in Thread, m \in Msg : BeginPush(p, t, m)

Finish(p) == FinishRegGc(p) \/ FinishPush(p) \/ FinishQuit(p) \/ MissHandler(p)

Run(t) ==
  \/ InitFails(t) \/ ScriptEnds(t) \/ Prepare(t) \/ Announce(t) \/ RunEnds(t)
  \/ Dispatch(t) \/ HandleEnds(t) \/ LoopEnds(t) \/ Exit(t)

Destroy == GcNext \/ NextFails \/ EndDestroy

Next ==
  \/ \E p \in Proc : Request(p) \/ Finish(p)
  \/ \E t \in Thread : Run(t)
  \/ BeginDestroy
  \/ Destroy

Spec == Init /\ [][Next]_vars

\* A process that runs finishes the call it is in and reaches the next step of
\* its loop; scripts are taken to return.  Nobody has to make a request, and the
\* user does not have to close the activity.
Fairness ==
  /\ \A p \in Proc : WF_vars(Finish(p))
  /\ \A t \in Thread : WF_vars(Run(t))
  /\ WF_vars(Destroy)

FairSpec == Spec /\ Fairness

-----------------------------------------------------------------------------
(* Properties                                                               *)

\* Every variable has its type.
TypeOK ==
  /\ pc \in [Thread -> {"absent", "new", "script", "prepare", "announce", "run", "loop",
                        "handle", "exit", "dead"}]
  /\ isRunning \in [Thread -> BOOLEAN]
  /\ mGc \in [Thread -> BOOLEAN]
  /\ handler \in [Thread -> BOOLEAN]
  /\ quitting \in [Thread -> BOOLEAN]
  /\ queue \in [Thread -> Seq(Msg)]
  /\ current \in [Thread -> Msg \union {NoMsg}]
  /\ op \in [Proc -> Op]
  /\ elementData \in Seq(Thread)
  /\ size \in Nat
  /\ modCount \in Nat
  /\ phase \in {"alive", "destroying", "destroyed", "crashed"}
  /\ cursor \in Nat
  /\ limit \in Nat
  /\ expected \in Nat
  /\ outcome \in [Msg -> {"unsent", "refused", "sending", "queued", "handled", "lost"}]
  /\ dest \in [Msg -> Proc]
  /\ failed \in [Thread -> BOOLEAN]
  /\ stopped \in [Thread -> BOOLEAN]
  /\ early \in [Thread -> BOOLEAN]
  /\ raced \in BOOLEAN
  /\ due \in SUBSET Thread

\* Where isRunning is true there is a Handler to send to, on a Looper nobody has
\* stopped, of a thread that will serve it: a caller's one unlocked look misleads it
\* only by being late, or by coming before handler is published.
RunningIsServable ==
  \A t \in Thread : isRunning[t] =>
    /\ handler[t]
    /\ ~stopped[t]
    /\ ~quitting[t]
    /\ pc[t] \in {"run", "loop", "handle"}

\* A request that push accepted disappears without a word only if somebody quit
\* the thread it was for.
LossNeedsQuit ==
  \A m \in Msg : outcome[m] = "lost" => dest[m] \in Thread /\ stopped[dest[m]]

\* A request that waits in a Looper waits once, in the Looper it was pushed to,
\* and is not the one that is being handled: nothing is handled twice.
QueuedOnce ==
  \A t \in Thread :
    /\ \A i, j \in 1..Len(queue[t]) : queue[t][i] = queue[t][j] => i = j
    /\ \A i \in 1..Len(queue[t]) :
         /\ outcome[queue[t][i]] = "queued"
         /\ dest[queue[t][i]] = t
         /\ current[t] # queue[t][i]

\* gc() leaves no thread running behind it, except one it came too early for:
\* quit() does nothing before isRunning is set, and the thread then sets it.
GcStops ==
  \A t \in Thread : mGc[t] /\ isRunning[t] => early[t]

\* onDestroy calls gc() on every thread that was registered when its loop began,
\* unless two threads were inside gcList.add at once, when one may be dropped.
GcReachesRegistered ==
  phase = "destroyed" /\ ~raced => \A t \in due : mGc[t]

\* A quit() that found the thread running ends it, unless it found no Handler: then
\* isRunning is false and nobody can quit the thread any more.
QuitEndsRunning ==
  \A t \in Thread : stopped[t] ~> (pc[t] = "dead" \/ phase = "crashed" \/ failed[t])

\* Every request that passed the test is handled, lost or refused by an error in the
\* end; none waits for ever.
AcceptedSettles ==
  \A m \in Msg : outcome[m] \in {"sending", "queued"}
                   ~> (outcome[m] \in {"handled", "lost", "refused"} \/ phase = "crashed")

\* After onDestroy a registered thread comes to its end, unless it was never
\* started, gc() came before it had set isRunning, or a quit() had found no Handler.
DestroyEndsRegistered ==
  \A t \in Thread :
    phase = "destroyed" /\ ~raced /\ t \in due
      ~> (pc[t] \in {"new", "dead"} \/ early[t] \/ failed[t])

\* The thread as its callers see it, and what it promises them.
serviceState ==
  [t \in Thread |->
     IF quitting[t] THEN "closed"
     ELSE IF stopped[t] THEN "closing"
     ELSE IF isRunning[t] THEN "up" ELSE "down"]

requestOutcome ==
  [m \in Msg |->
     IF \E t \in Thread : current[t] = m THEN "started"
     ELSE IF outcome[m] \in {"sending", "queued"} THEN "pending" ELSE outcome[m]]

Service == INSTANCE CallService
             WITH Nobody <- UI, state <- serviceState, outcome <- requestOutcome

\* Every thread implements CallService for those who hold a reference to it.
ImplementsCallService == Service!Spec

\* What help.lua says of activity.newThread: "a looping thread, whose loop ends
\* by itself when the current activity ends".
DestroyEndsLoops ==
  \A t \in Thread : phase = "destroyed" /\ pc[t] \notin {"absent", "new"} ~> pc[t] = "dead"
=============================================================================
