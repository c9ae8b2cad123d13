------------------------------ MODULE LuaStates ------------------------------
(***************************************************************************)
(* The Lua state of an activity and those of its threads, each with one    *)
(* stack and one monitor, and the Java methods that work on them from      *)
(* several threads (LuaState, LuaObject, LuaThread, LuaActivity).  Each    *)
(* native operation takes the monitor for itself, pcall keeps it while the *)
(* script runs, and a script may call the methods of another state.  Some  *)
(* methods take the monitor around all their operations; the others can be *)
(* interrupted between any two.                                            *)
(*                                                                         *)
(* A script's calls on a state it runs in have a Lua frame of their own,   *)
(* and the monitor already; they are left out.                             *)
(***************************************************************************)
EXTENDS Naturals, Sequences, SequencesExt

CONSTANTS
  Main,      \* the state of the activity, and the UI thread
  Threads,   \* the script threads and their states
  MaxCalls   \* bound: calls made in all

ASSUME LuaStatesAssumption == Main \notin Threads /\ MaxCalls \in Nat

Procs == Threads \union {Main}

VARIABLES
  frames,    \* per process, the calls it is in, the innermost last
  stack,     \* per state, the stack between scripts: who pushed each value
  calls,     \* calls made so far
  met        \* history: the processes whose state another one has changed since they
             \* last changed it themselves

vars == <<frames, stack, calls, met>>

Init ==
  /\ frames = [p \in Procs |-> << >>]
  /\ stack = [s \in Procs |-> << >>]
  /\ calls = 0
  /\ met = {}

-----------------------------------------------------------------------------
(* Calls.                                                                  *)

\* The steps of each method.  "callback" is LuaObject.call, through which listeners
\* and proxies come back into the state that made them; "doString" stands for
\* doFile, doAsset and newLuaThread too.
Steps ==
  [runFunc  |-> {"enter", "clear", "push", "test", "call", "script"},
   doString |-> {"clear", "push", "call", "script", "use"},
   setField |-> {"enter", "push", "use"},
   get      |-> {"enter", "push", "use"},
   callback |-> {"enter", "push", "call", "script", "leave"}]

\* (a mutant of the next definition) get() of the activity as that of a thread.
LockedButGet(op, s) == op = "callback" \/ (s = Main /\ op \notin {"doString", "get"})

\* (a mutant of the next definition) The methods of a thread as those of the activity.
LockedEverywhere(op, s) == op # "doString"

\* The methods with synchronized (L) around them: those of LuaObject, and of the
\* activity all but doString.
Locked(op, s) == op = "callback" \/ (s = Main /\ op # "doString")

First(op) == IF op \in {"runFunc", "doString"} THEN "clear" ELSE "push"

\* (a mutant of the next definition) A value to set is called like a function.
AfterPushCall(op) ==
  CASE op = "runFunc" -> "test"
    [] op \in {"doString", "callback", "setField"} -> "call"
    [] op = "get" -> "use"

\* What a method does with the value it has pushed.
AfterPush(op) ==
  CASE op = "runFunc" -> "test"
    [] op \in {"doString", "callback"} -> "call"
    [] op \in {"get", "setField"} -> "use"

NewCall(op, s) ==
  [op |-> op, on |-> s,
   pc |-> IF Locked(op, s) THEN "enter" ELSE First(op)]

Current(p) == Last(frames[p])
Inside(p) == {frames[p][i].on : i \in DOMAIN frames[p]}

\* p owns the monitor of s.
Holds(p, s) ==
  \E i \in DOMAIN frames[p] :
    LET f == frames[p][i]
    IN f.on = s /\ (f.pc = "script" \/ (Locked(f.op, s) /\ f.pc # "enter"))

\* Monitors are reentrant.
CanTake(p, s) == \A q \in Procs \ {p} : ~Holds(q, s)

-----------------------------------------------------------------------------
(* The steps of the call a process is in.                                  *)

At(p, step) ==
  /\ frames[p] # << >> /\ Current(p).pc = step
  /\ CanTake(p, Current(p).on)

GoTo(p, step) == frames' = [frames EXCEPT ![p][Len(frames[p])].pc = step]
Leave(p) == frames' = [frames EXCEPT ![p] = Front(@)]

\* p gives the stack of its state this value; whoever is about to use it is met.
Write(p, new) ==
  LET s == Current(p).on
      users == {q \in Procs \ {p} : /\ frames[q] # << >> /\ Current(q).on = s
                                    /\ Current(q).pc \in {"test", "call", "use"}}
  IN /\ stack' = [stack EXCEPT ![s] = new]
     /\ met' = (met \ {p}) \union users

Pushed(p) == Append(stack[Current(p).on], p)
Popped(p) == LET st == stack[Current(p).on] IN IF st = << >> THEN st ELSE Front(st)

Enter(p) ==
  /\ At(p, "enter")
  /\ GoTo(p, First(Current(p).op))
  /\ UNCHANGED <<stack, calls, met>>

\* setTop(0).
Clear(p) ==
  /\ At(p, "clear")
  /\ GoTo(p, "push")
  /\ Write(p, << >>)
  /\ UNCHANGED calls

Push(p) ==
  /\ At(p, "push")
  /\ GoTo(p, AfterPush(Current(p).op))
  /\ Write(p, Pushed(p))
  /\ UNCHANGED calls

\* isFunction(-1): a name the script has not defined is no error.
Test(p) ==
  /\ At(p, "test")
  /\ GoTo(p, "call") \/ Leave(p)
  /\ UNCHANGED <<stack, calls, met>>

\* traceback, the arguments and pcall.
Call(p) ==
  /\ At(p, "call")
  /\ GoTo(p, "script")
  /\ Write(p, Popped(p))
  /\ UNCHANGED calls

\* pcall returns; what it leaves stays on the stack.  doString of the activity takes
\* its result from there.
Return(p) ==
  /\ At(p, "script")
  /\ IF Current(p).op = "doString" /\ Current(p).on = Main THEN GoTo(p, "use") ELSE Leave(p)
  /\ Write(p, Pushed(p))
  /\ UNCHANGED calls

\* A script fails, or a chunk that does not load: sendError() runs onError of the
\* activity on the thread that failed; the methods that keep the monitor, runFunc of
\* the activity and a callback, still have it then.  doString of the activity sends a message only.
Fail(p) ==
  LET f == Current(p)
      onError == NewCall("runFunc", Main)
      others == Front(frames[p])
  IN /\ At(p, "script") /\ calls < MaxCalls
     /\ f.on = Main => f.op # "doString"
     /\ f.on = Main \/ Main \notin Inside(p)
     /\ frames' = [frames EXCEPT ![p] =
          IF f.on = Main THEN Append(others, [onError EXCEPT !.pc = "clear"])
          ELSE IF Locked(f.op, f.on) THEN others \o <<[f EXCEPT !.pc = "leave"], onError>>
          ELSE Append(others, onError)]
     /\ calls' = calls + 1
     /\ Write(p, Pushed(p))

LeaveCallback(p) ==
  /\ At(p, "leave")
  /\ Leave(p)
  /\ UNCHANGED <<stack, calls, met>>

\* toJavaObject(-1), which leaves the value, or setGlobal, which pops it.
Use(p) ==
  /\ At(p, "use")
  /\ Leave(p)
  /\ IF Current(p).op = "setField"
     THEN Write(p, Popped(p))
     ELSE UNCHANGED <<stack, met>>
  /\ UNCHANGED calls

-----------------------------------------------------------------------------
(* Who calls what.                                                         *)

Begin(p, op, s) ==
  /\ calls < MaxCalls
  /\ calls' = calls + 1
  /\ frames' = [frames EXCEPT ![p] = Append(@, NewCall(op, s))]
  /\ UNCHANGED <<stack, met>>

\* A message of the main thread or of a thread's Looper, run() of a thread, or an
\* event whose listener some script made.
Serve(p) ==
  /\ frames[p] = << >>
  /\ \/ \E op \in {"runFunc", "setField", "doString"} : Begin(p, op, p)
     \/ p = Main /\ \E s \in Procs : Begin(p, "callback", s)

\* A script calls a method of a state it does not run in.
Ask(p) ==
  /\ At(p, "script")
  /\ \E s \in Procs \ Inside(p) :
       \/ \E op \in {"get", "callback"} : Begin(p, op, s)
       \/ s = Main /\ \E op \in {"runFunc", "doString"} : Begin(p, op, s)

Step(p) ==
  \/ Enter(p) \/ Clear(p) \/ Push(p) \/ Test(p) \/ Call(p) \/ Use(p)
  \/ Ask(p) \/ Return(p) \/ Fail(p) \/ LeaveCallback(p)

Next == \E p \in Procs : Serve(p) \/ Step(p)

\* A thread that can take its next step takes it, and scripts come to an end.
Fairness == \A p \in Procs : WF_vars(Step(p))

Spec == Init /\ [][Next]_vars /\ Fairness

-----------------------------------------------------------------------------
(* What is true of it.                                                     *)

\* Every variable has its type, and each call is at a step its method has.
TypeOK ==
  /\ calls \in 0 .. MaxCalls
  /\ \A p \in Procs : \A i \in DOMAIN frames[p] :
       LET f == frames[p][i]
       IN /\ f.on \in Procs
          /\ f.op \in DOMAIN Steps /\ f.pc \in Steps[f.op]
  /\ stack \in [Procs -> Seq(Procs)]
  /\ met \subseteq Procs

\* The next step of p works on what is on top of the stack.
Takes(p) == Test(p) \/ Call(p) \/ Use(p)

\* A method works on the value that it pushed itself, not on one that another thread
\* left there, except in the methods that do not keep the monitor: those of a thread
\* (LuaThread.java:164-167, 404-438) and doString of the activity, and there only
\* when another process came in between.  What earlier calls left on the stack does
\* no harm.
OwnValueUsed ==
  [][\A p \in Procs : Takes(p) =>
       LET f == Current(p)
           own == stack[f.on] # << >> /\ Last(stack[f.on]) = p
       IN own \/ (p \in met /\ f.op # "callback" /\ (f.on = Main => f.op = "doString"))]_vars

\* p waits for the monitor of a state that q owns.
Waits(p, q) ==
  q # p /\ frames[p] # << >> /\ Holds(q, Current(p).on)

\* p waits in a call that a script of it made, or for onError after a callback that
\* failed: it is a script, or a listener, that keeps the monitors p has.
InScript(p) ==
  /\ Len(frames[p]) > 1
  /\ LET caller == frames[p][Len(frames[p]) - 1]
     IN caller.pc = "script" \/ (caller.pc = "leave" /\ caller.op = "callback")

\* Scripts have asked in a circle: each waits for another of them, and one for the
\* state of a thread.
Circle ==
  \E ps \in SUBSET Procs \ {{}} :
    /\ \A p \in ps : InScript(p) /\ \E q \in ps : Waits(p, q)
    /\ \E p \in ps : Current(p).on \in Threads

\* Every call returns, whatever the scripts ask of each other, unless some of them
\* have asked in a circle.  No method adds a circle of its own: those that keep a
\* monitor ask for no other with it, and those of a thread, whose error handler needs
\* the activity's, keep none (LuaActivity.java:1441-1446, LuaThread.java:164-167,
\* 404-438, LuaInvocationHandler.java:60).
CallsReturn == \A p \in Procs : frames[p] # << >> ~> (frames[p] = << >> \/ Circle)
=============================================================================
