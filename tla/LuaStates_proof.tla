---------------------------- MODULE LuaStates_proof ----------------------------
(***************************************************************************)
(* Theorems about LuaStates, for any number of script threads and calls.   *)
(***************************************************************************)
EXTENDS LuaStates, SequenceTheorems, TLAPS

-----------------------------------------------------------------------------
(* The inductive invariant, part by part.                                   *)

Op == {"runFunc", "doString", "setField", "get", "callback"}
Pc == {"enter", "clear", "push", "test", "call", "script", "use", "leave"}

\* The calls there can be: each is at a step of its method, and only a method with
\* synchronized (L) around it waits for the monitor first.
Frame ==
  {f \in [op : Op, on : Procs, pc : Pc] :
     f.pc \in Steps[f.op] /\ (f.pc = "enter" => Locked(f.op, f.on))}

FramesOK == frames \in [Procs -> Seq(Frame)]

\* A call that made another one is in its script, or about to leave its monitor.
OuterInv ==
  \A p \in Procs : \A i \in 1..Len(frames[p]) :
    i < Len(frames[p]) => frames[p][i].pc \in {"script", "leave"}

\* At most one process owns the monitor of a state.
OneOwner == \A p, q \in Procs, s \in Procs : Holds(p, s) /\ Holds(q, s) => p = q

\* p is about to use the value on top of the stack, which is one it pushed.
Using(p) == frames[p] # << >> /\ Current(p).pc \in {"test", "call", "use"}
Own(p) == stack[Current(p).on] # << >> /\ Last(stack[Current(p).on]) = p

\* Unless another process has changed the stack since, a process uses its own value;
\* in a method that keeps the monitor nobody can.
ValueInv ==
  \A p \in Procs : Using(p) =>
    Own(p) \/ (p \in met /\ ~Locked(Current(p).op, Current(p).on))

IInv == FramesOK /\ TypeOK /\ OuterInv /\ OneOwner /\ ValueInv

-----------------------------------------------------------------------------
(* What the steps do to the calls of a process.                             *)

\* The table of the methods' steps, as sets.
LEMMA StepsTable ==
  /\ DOMAIN Steps = Op
  /\ Steps["runFunc"] = {"enter", "clear", "push", "test", "call", "script"}
  /\ Steps["doString"] = {"clear", "push", "call", "script", "use"}
  /\ Steps["setField"] = {"enter", "push", "use"}
  /\ Steps["get"] = {"enter", "push", "use"}
  /\ Steps["callback"] = {"enter", "push", "call", "script", "leave"}
BY DEF Steps, Op

\* The innermost call is a call, and the last of the sequence.
LEMMA CurrentIsFrame ==
  ASSUME FramesOK, NEW p \in Procs, frames[p] # << >>
  PROVE  /\ Len(frames[p]) \in Nat \ {0}
         /\ Len(frames[p]) \in 1..Len(frames[p])
         /\ Current(p) = frames[p][Len(frames[p])]
         /\ Current(p) \in Frame
<1>1. frames[p] \in Seq(Frame)
  BY DEF FramesOK
<1>2. Len(frames[p]) \in Nat \ {0}
  BY <1>1, EmptySeq
<1>3. Current(p) = frames[p][Len(frames[p])]
  BY DEF Current, Last
<1> QED BY <1>1, <1>2, <1>3, ElementOfSeq

\* A call that begins.
LEMMA NewCallIsFrame ==
  ASSUME NEW op \in Op, NEW s \in Procs
  PROVE  /\ NewCall(op, s) \in Frame
         /\ NewCall(op, s).on = s /\ NewCall(op, s).op = op
         /\ NewCall(op, s).pc \in {"enter", "clear", "push"}
         /\ NewCall(op, s).pc # "enter" => ~Locked(op, s)
<1>1. First(op) \in {"clear", "push"} /\ First(op) \in Steps[op]
  BY StepsTable DEF First, Op
<1>2. Locked(op, s) => "enter" \in Steps[op]
  BY StepsTable DEF Locked, Op
<1> QED BY <1>1, <1>2 DEF NewCall, Frame, Pc

\* The innermost call goes to another step of its method.
LEMMA GoToShape ==
  ASSUME FramesOK, NEW p \in Procs, frames[p] # << >>, NEW step \in Pc \ {"enter"},
         step \in Steps[Current(p).op], GoTo(p, step)
  PROVE  /\ FramesOK'
         /\ \A q \in Procs \ {p} : frames'[q] = frames[q]
         /\ Len(frames'[p]) = Len(frames[p])
         /\ \A i \in 1..Len(frames[p]) :
              frames'[p][i] = IF i = Len(frames[p]) THEN [Current(p) EXCEPT !.pc = step]
                                                    ELSE frames[p][i]
<1> DEFINE n == Len(frames[p])
           f == [Current(p) EXCEPT !.pc = step]
<1>1. n \in 1..n /\ Current(p) = frames[p][n] /\ Current(p) \in Frame
  BY CurrentIsFrame
<1>2. f \in Frame
  BY <1>1 DEF Frame
<1>3. frames' = [frames EXCEPT ![p] = [frames[p] EXCEPT ![n] = f]]
  BY <1>1 DEF GoTo
<1>4. frames[p] \in Seq(Frame)
  BY DEF FramesOK
<1>5. frames'[p] = [frames[p] EXCEPT ![n] = f]
  BY <1>3 DEF FramesOK
<1>6. \A q \in Procs \ {p} : frames'[q] = frames[q]
  BY <1>3 DEF FramesOK
<1> HIDE DEF n, f
<1>7. /\ frames'[p] \in Seq(Frame)
      /\ Len(frames'[p]) = Len(frames[p])
      /\ \A i \in 1..Len(frames[p]) : frames'[p][i] = IF i = n THEN f ELSE frames[p][i]
  BY <1>1, <1>2, <1>4, <1>5, ExceptSeq DEF n
<1>8. FramesOK'
  BY <1>3, <1>5, <1>7 DEF FramesOK
<1> QED BY <1>6, <1>7, <1>8 DEF n, f

\* The innermost call returns.
LEMMA LeaveShape ==
  ASSUME FramesOK, NEW p \in Procs, frames[p] # << >>, Leave(p)
  PROVE  /\ FramesOK'
         /\ \A q \in Procs \ {p} : frames'[q] = frames[q]
         /\ Len(frames'[p]) = Len(frames[p]) - 1
         /\ \A i \in 1..Len(frames[p]) - 1 : frames'[p][i] = frames[p][i]
<1> DEFINE n == Len(frames[p])
<1>1. n \in Nat \ {0} /\ frames[p] \in Seq(Frame)
  BY CurrentIsFrame DEF FramesOK
<1>2. frames' = [frames EXCEPT ![p] = SubSeq(frames[p], 1, n - 1)]
  BY DEF Leave, Front
<1>3. frames'[p] = SubSeq(frames[p], 1, n - 1) /\ \A q \in Procs \ {p} : frames'[q] = frames[q]
  BY <1>2 DEF FramesOK
<1>4. \A i \in 1..n - 1 : frames[p][i] \in Frame
  BY <1>1, ElementOfSeq
<1> HIDE DEF n
<1>5. /\ frames'[p] \in Seq(Frame)
      /\ Len(frames'[p]) = n - 1
      /\ \A i \in 1..n - 1 : frames'[p][i] = frames[p][i]
  BY <1>1, <1>3, <1>4, SubSeqProperties
<1>6. FramesOK'
  BY <1>2, <1>3, <1>5 DEF FramesOK
<1> QED BY <1>3, <1>5, <1>6 DEF n

\* A call is made inside the others.
LEMMA BeginShape ==
  ASSUME FramesOK, NEW p \in Procs, NEW op \in Op, NEW s \in Procs, Begin(p, op, s)
  PROVE  /\ FramesOK'
         /\ \A q \in Procs \ {p} : frames'[q] = frames[q]
         /\ Len(frames'[p]) = Len(frames[p]) + 1
         /\ \A i \in 1..Len(frames[p]) : frames'[p][i] = frames[p][i]
         /\ frames'[p][Len(frames[p]) + 1] = NewCall(op, s)
<1>1. NewCall(op, s) \in Frame /\ frames[p] \in Seq(Frame)
  BY NewCallIsFrame DEF FramesOK
<1>2. /\ frames'[p] = Append(frames[p], NewCall(op, s))
      /\ \A q \in Procs \ {p} : frames'[q] = frames[q]
      /\ frames' = [frames EXCEPT ![p] = Append(frames[p], NewCall(op, s))]
  BY DEF Begin, FramesOK
<1>3. /\ frames'[p] \in Seq(Frame)
      /\ Len(frames'[p]) = Len(frames[p]) + 1
      /\ \A i \in 1..Len(frames[p]) : frames'[p][i] = frames[p][i]
      /\ frames'[p][Len(frames[p]) + 1] = NewCall(op, s)
  BY <1>1, <1>2, AppendProperties
<1>4. FramesOK'
  BY <1>2, <1>3 DEF FramesOK
<1> QED BY <1>2, <1>3, <1>4

\* A script fails: onError of the activity takes the place of its call, or comes on top
\* of a callback that has its monitor to leave yet.
LEMMA FailShape ==
  ASSUME FramesOK, NEW p \in Procs, frames[p] # << >>, Fail(p)
  PROVE  /\ FramesOK'
         /\ \A q \in Procs \ {p} : frames'[q] = frames[q]
         /\ \A i \in 1..Len(frames[p]) - 1 : frames'[p][i] = frames[p][i]
         /\ \/ /\ Len(frames'[p]) = Len(frames[p])
               /\ Current(p).on = Main
               /\ Current(p)' = [op |-> "runFunc", on |-> Main, pc |-> "clear"]
            \/ /\ Len(frames'[p]) = Len(frames[p])
               /\ Current(p)' = [op |-> "runFunc", on |-> Main, pc |-> "enter"]
            \/ /\ Len(frames'[p]) = Len(frames[p]) + 1
               /\ Current(p).op = "callback"
               /\ frames'[p][Len(frames[p])] = [Current(p) EXCEPT !.pc = "leave"]
               /\ Current(p)' = [op |-> "runFunc", on |-> Main, pc |-> "enter"]
<1> DEFINE n == Len(frames[p])
           f == Current(p)
           onError == NewCall("runFunc", Main)
           others == Front(frames[p])
<1>1. n \in Nat \ {0} /\ f \in Frame /\ frames[p] \in Seq(Frame) /\ f = frames[p][n] /\ n \in 1..n
  BY CurrentIsFrame DEF FramesOK
<1>2. /\ onError = [op |-> "runFunc", on |-> Main, pc |-> "enter"]
      /\ [onError EXCEPT !.pc = "clear"] = [op |-> "runFunc", on |-> Main, pc |-> "clear"]
  BY DEF NewCall, Locked
<1>3. /\ onError \in Frame /\ [onError EXCEPT !.pc = "clear"] \in Frame
      /\ f.op = "callback" => [f EXCEPT !.pc = "leave"] \in Frame
  <2>1. Main \in Procs
    BY DEF Procs
  <2>2. "clear" \in Steps["runFunc"] /\ "enter" \in Steps["runFunc"] /\ "leave" \in Steps["callback"]
    BY StepsTable
  <2> QED BY <1>1, <1>2, <2>1, <2>2 DEF Frame, Op, Pc, Locked
<1>4. /\ others \in Seq(Frame) /\ Len(others) = n - 1
      /\ \A i \in 1..n - 1 : others[i] = frames[p][i]
  <2>1. \A i \in 1..n - 1 : frames[p][i] \in Frame
    BY <1>1, ElementOfSeq
  <2> HIDE DEF n
  <2> QED BY <1>1, <2>1, SubSeqProperties DEF Front, n
<1> HIDE DEF others, onError, f, n
<1>5. \A e \in Frame : /\ Append(others, e) \in Seq(Frame)
                       /\ Len(Append(others, e)) = n
                       /\ \A i \in 1..n - 1 : Append(others, e)[i] = frames[p][i]
                       /\ Last(Append(others, e)) = e
  <2> SUFFICES ASSUME NEW e \in Frame
               PROVE  /\ Append(others, e) \in Seq(Frame)
                      /\ Len(Append(others, e)) = n
                      /\ \A i \in 1..n - 1 : Append(others, e)[i] = frames[p][i]
                      /\ Last(Append(others, e)) = e
    OBVIOUS
  <2>1. /\ Append(others, e) \in Seq(Frame)
        /\ Len(Append(others, e)) = Len(others) + 1
        /\ \A i \in 1..Len(others) : Append(others, e)[i] = others[i]
        /\ Append(others, e)[Len(others) + 1] = e
    BY <1>4, AppendProperties
  <2> QED BY <1>1, <1>4, <2>1 DEF Last
<1>6. CASE f.on = Main
  <2>1. frames' = [frames EXCEPT ![p] = Append(others, [onError EXCEPT !.pc = "clear"])]
    BY <1>6 DEF Fail, f, others, onError
  <2>2. frames'[p] = Append(others, [onError EXCEPT !.pc = "clear"])
    BY <2>1 DEF FramesOK
  <2>3. FramesOK' /\ \A q \in Procs \ {p} : frames'[q] = frames[q]
    BY <1>3, <1>5, <2>1 DEF FramesOK
  <2> QED BY <1>2, <1>3, <1>5, <1>6, <2>2, <2>3 DEF Current, n, f
<1>7. CASE f.on # Main /\ f.op # "callback"
  <2>1. frames' = [frames EXCEPT ![p] = Append(others, onError)]
    <3>1. ~Locked(f.op, f.on)
      BY <1>7 DEF Locked
    <3> QED BY <1>7, <3>1 DEF Fail, f, others, onError
  <2>2. frames'[p] = Append(others, onError)
    BY <2>1 DEF FramesOK
  <2>3. FramesOK' /\ \A q \in Procs \ {p} : frames'[q] = frames[q]
    BY <1>3, <1>5, <2>1 DEF FramesOK
  <2> QED BY <1>2, <1>3, <1>5, <2>2, <2>3 DEF Current, n
<1>8. CASE f.on # Main /\ f.op = "callback"
  <2> DEFINE g == [f EXCEPT !.pc = "leave"]
             two == <<g, onError>>
  <2>1. frames' = [frames EXCEPT ![p] = others \o two]
    <3>1. Locked(f.op, f.on)
      BY <1>8 DEF Locked
    <3> QED BY <1>8, <3>1 DEF Fail, f, others, onError
  <2>2. frames'[p] = others \o two
    BY <2>1 DEF FramesOK
  <2>3. g \in Frame
    BY <1>3, <1>8
  <2> HIDE DEF g
  <2>4. two \in Seq(Frame) /\ Len(two) = 2 /\ two[1] = g /\ two[2] = onError
    BY <1>3, <2>3
  <2> HIDE DEF two
  <2>5. /\ others \o two \in Seq(Frame)
        /\ Len(others \o two) = n + 1
        /\ \A i \in 1..n + 1 : (others \o two)[i] =
             IF i <= n - 1 THEN others[i] ELSE two[i - (n - 1)]
    <3>1. /\ others \o two \in Seq(Frame)
          /\ Len(others \o two) = Len(others) + Len(two)
          /\ \A i \in 1..Len(others) + Len(two) : (others \o two)[i] =
               IF i <= Len(others) THEN others[i] ELSE two[i - Len(others)]
      BY <1>4, <2>4, ConcatProperties
    <3>2. Len(others) = n - 1 /\ Len(others) + Len(two) = n + 1
      BY <1>1, <1>4, <2>4
    <3> QED BY <3>1, <3>2
  <2>6. /\ \A i \in 1..n - 1 : (others \o two)[i] = frames[p][i]
        /\ (others \o two)[n] = g
        /\ (others \o two)[n + 1] = onError
    <3>1. /\ n \in 1..n + 1 /\ ~(n <= n - 1) /\ n - (n - 1) = 1
          /\ n + 1 \in 1..n + 1 /\ ~(n + 1 <= n - 1) /\ n + 1 - (n - 1) = 2
          /\ \A i \in 1..n - 1 : i \in 1..n + 1 /\ i <= n - 1
      BY <1>1
    <3>2. (others \o two)[n] = two[1]
      <4>1. (others \o two)[n] = two[n - (n - 1)]
        BY <2>5, <3>1
      <4> QED BY <3>1, <4>1
    <3>4. (others \o two)[n + 1] = two[2]
      <4>1. (others \o two)[n + 1] = two[n + 1 - (n - 1)]
        BY <2>5, <3>1
      <4> QED BY <3>1, <4>1
    <3>3. \A i \in 1..n - 1 : (others \o two)[i] = others[i]
      BY <2>5, <3>1
    <3> QED BY <1>4, <2>4, <3>2, <3>3, <3>4
  <2>7. FramesOK' /\ \A q \in Procs \ {p} : frames'[q] = frames[q]
    BY <2>1, <2>5 DEF FramesOK
  <2> QED BY <1>2, <1>8, <2>2, <2>5, <2>6, <2>7 DEF Current, Last, n, f, g
<1> QED BY <1>6, <1>7, <1>8

\* The innermost call is at this step and p has, or can take, the monitor it needs.
Moves(p) == frames[p] # << >> /\ CanTake(p, Current(p).on)

\* A step makes a call, or takes the innermost one on, or ends it, or replaces it.
LEMMA StepKinds ==
  ASSUME FramesOK, NEW p \in Procs, Serve(p) \/ Step(p)
  PROVE  \/ /\ frames[p] = << >> \/ (Moves(p) /\ Current(p).pc = "script")
            /\ \E op \in Op, s \in Procs : Begin(p, op, s)
         \/ /\ Moves(p)
            /\ \E step \in Pc \ {"enter"} : step \in Steps[Current(p).op] /\ GoTo(p, step)
         \/ Moves(p) /\ Leave(p)
         \/ Moves(p) /\ Fail(p)
<1> DEFINE Goal ==
      \/ /\ frames[p] = << >> \/ (Moves(p) /\ Current(p).pc = "script")
         /\ \E op \in Op, s \in Procs : Begin(p, op, s)
      \/ /\ Moves(p)
         /\ \E step \in Pc \ {"enter"} : step \in Steps[Current(p).op] /\ GoTo(p, step)
      \/ Moves(p) /\ Leave(p)
      \/ Moves(p) /\ Fail(p)
<1>1. CASE Serve(p)
  BY <1>1 DEF Serve, Op
<1>2. ASSUME NEW step \in Pc, At(p, step)
      PROVE  Moves(p) /\ Current(p).pc = step /\ Current(p).op \in Op
               /\ step \in Steps[Current(p).op]
  BY <1>2, CurrentIsFrame DEF At, Moves, Frame
<1>3. CASE Enter(p)
  <2>1. At(p, "enter") /\ "enter" \in Pc /\ GoTo(p, First(Current(p).op))
    BY <1>3 DEF Enter, Pc
  <2>2. Moves(p) /\ Current(p).op \in Op
    BY <1>2, <2>1
  <2>3. First(Current(p).op) \in {"clear", "push"} /\ First(Current(p).op) \in Steps[Current(p).op]
    BY <2>2, StepsTable DEF First, Op
  <2> QED BY <2>1, <2>2, <2>3 DEF Pc
<1>4. CASE Clear(p)
  <2>1. At(p, "clear") /\ "clear" \in Pc /\ GoTo(p, "push")
    BY <1>4 DEF Clear, Pc
  <2>2. Moves(p) /\ "push" \in Steps[Current(p).op]
    BY <1>2, <2>1, StepsTable DEF Op
  <2> QED BY <2>1, <2>2 DEF Pc
<1>5. CASE Push(p)
  <2>1. At(p, "push") /\ "push" \in Pc /\ GoTo(p, AfterPush(Current(p).op))
    BY <1>5 DEF Push, Pc
  <2>2. Moves(p) /\ Current(p).op \in Op
    BY <1>2, <2>1
  <2>3. /\ AfterPush(Current(p).op) \in {"test", "call", "use"}
        /\ AfterPush(Current(p).op) \in Steps[Current(p).op]
    BY <2>2, StepsTable DEF AfterPush, Op
  <2> QED BY <2>1, <2>2, <2>3 DEF Pc
<1>6. CASE Test(p)
  <2>1. At(p, "test") /\ "test" \in Pc /\ (GoTo(p, "call") \/ Leave(p))
    BY <1>6 DEF Test, Pc
  <2>2. Moves(p) /\ "call" \in Steps[Current(p).op]
    BY <1>2, <2>1, StepsTable DEF Op
  <2> QED BY <2>1, <2>2 DEF Pc
<1>7. CASE Call(p)
  <2>1. At(p, "call") /\ "call" \in Pc /\ GoTo(p, "script")
    BY <1>7 DEF Call, Pc
  <2>2. Moves(p) /\ "script" \in Steps[Current(p).op]
    BY <1>2, <2>1, StepsTable DEF Op
  <2> QED BY <2>1, <2>2 DEF Pc
<1>8. CASE Use(p)
  BY <1>2, <1>8 DEF Use, Pc
<1>9. CASE Return(p)
  <2>1. At(p, "script") /\ "script" \in Pc
    BY <1>9 DEF Return, Pc
  <2>2. Moves(p)
    BY <1>2, <2>1
  <2>3. Leave(p) \/ (Current(p).op = "doString" /\ GoTo(p, "use"))
    BY <1>9 DEF Return
  <2> QED BY <2>2, <2>3, StepsTable DEF Pc
<1>10. CASE Ask(p)
  <2>1. At(p, "script") /\ "script" \in Pc
    BY <1>10 DEF Ask, Pc
  <2>2. Moves(p) /\ Current(p).pc = "script"
    BY <1>2, <2>1
  <2>3. \E op \in Op, s \in Procs : Begin(p, op, s)
    BY <1>10 DEF Ask, Op
  <2> QED BY <2>2, <2>3
<1>11. CASE Fail(p)
  BY <1>2, <1>11 DEF Fail, Pc
<1>12. CASE LeaveCallback(p)
  BY <1>2, <1>12 DEF LeaveCallback, Pc
<1> QED
  BY <1>1, <1>3, <1>4, <1>5, <1>6, <1>7, <1>8, <1>9, <1>10, <1>11, <1>12 DEF Step

-----------------------------------------------------------------------------
(* The parts of the invariant.                                              *)

\* Calls stay calls, and the ones that made others stay where they were.
LEMMA FramesStep ==
  ASSUME FramesOK, OuterInv, NEW p \in Procs, Serve(p) \/ Step(p)
  PROVE  /\ FramesOK' /\ OuterInv'
         /\ \A q \in Procs \ {p} : frames'[q] = frames[q]
<1> DEFINE n == Len(frames[p])
<1>0. n \in Nat
  BY LenProperties DEF FramesOK
<1>1. ASSUME \A q \in Procs \ {p} : frames'[q] = frames[q],
             \A i \in 1..Len(frames'[p]) :
               i < Len(frames'[p]) => frames'[p][i].pc \in {"script", "leave"}
      PROVE  OuterInv'
  BY <1>1 DEF OuterInv
<1>2. CASE /\ frames[p] = << >> \/ (Moves(p) /\ Current(p).pc = "script")
           /\ \E op \in Op, s \in Procs : Begin(p, op, s)
  <2>1. PICK op \in Op, s \in Procs : Begin(p, op, s)
    BY <1>2
  <2>2. /\ FramesOK'
        /\ \A q \in Procs \ {p} : frames'[q] = frames[q]
        /\ Len(frames'[p]) = n + 1
        /\ \A i \in 1..n : frames'[p][i] = frames[p][i]
    BY <2>1, BeginShape
  <2>3. n = 0 \/ (n \in 1..n /\ frames[p][n].pc = "script")
    BY <1>2, CurrentIsFrame
  <2>4. \A i \in 1..n : frames[p][i].pc \in {"script", "leave"}
    BY <1>0, <2>3 DEF OuterInv
  <2> QED BY <1>0, <1>1, <2>2, <2>4
<1>3. ASSUME Moves(p), NEW step \in Pc \ {"enter"}, step \in Steps[Current(p).op], GoTo(p, step)
      PROVE  /\ FramesOK' /\ OuterInv'
             /\ \A q \in Procs \ {p} : frames'[q] = frames[q]
  <2>1. /\ FramesOK'
        /\ \A q \in Procs \ {p} : frames'[q] = frames[q]
        /\ Len(frames'[p]) = n
        /\ \A i \in 1..n : i < n => frames'[p][i] = frames[p][i]
    <3>1. frames[p] # << >>
      BY <1>3 DEF Moves
    <3>2. /\ FramesOK'
          /\ \A q \in Procs \ {p} : frames'[q] = frames[q]
          /\ Len(frames'[p]) = n
          /\ \A i \in 1..n : frames'[p][i] =
               IF i = n THEN [Current(p) EXCEPT !.pc = step] ELSE frames[p][i]
      BY <1>3, <3>1, GoToShape
    <3> QED BY <1>0, <3>2
  <2> QED BY <1>1, <2>1 DEF OuterInv
<1>4. CASE Moves(p) /\ Leave(p)
  <2>1. /\ FramesOK'
        /\ \A q \in Procs \ {p} : frames'[q] = frames[q]
        /\ Len(frames'[p]) = n - 1
        /\ \A i \in 1..n - 1 : frames'[p][i] = frames[p][i]
    BY <1>4, LeaveShape DEF Moves
  <2>2. \A i \in 1..n - 1 : i \in 1..n /\ i < n
    BY <1>0
  <2> QED BY <1>1, <2>1, <2>2 DEF OuterInv
<1>5. CASE Moves(p) /\ Fail(p)
  <2>1. /\ FramesOK'
        /\ \A q \in Procs \ {p} : frames'[q] = frames[q]
        /\ \A i \in 1..n - 1 : frames'[p][i] = frames[p][i]
        /\ Len(frames'[p]) = n \/ (Len(frames'[p]) = n + 1 /\ frames'[p][n].pc = "leave")
    <3>1. \A f \in Frame : [f EXCEPT !.pc = "leave"].pc = "leave"
      BY DEF Frame
    <3>2. frames[p] # << >> /\ Fail(p) /\ Current(p) \in Frame
      BY <1>5, CurrentIsFrame DEF Moves
    <3>3. /\ FramesOK'
          /\ \A q \in Procs \ {p} : frames'[q] = frames[q]
          /\ \A i \in 1..n - 1 : frames'[p][i] = frames[p][i]
      BY <3>2, FailShape
    <3>4. \/ Len(frames'[p]) = n
          \/ Len(frames'[p]) = n + 1 /\ frames'[p][n] = [Current(p) EXCEPT !.pc = "leave"]
      BY <3>2, FailShape
    <3> QED BY <3>1, <3>2, <3>3, <3>4
  <2>2. \A i \in 1..n - 1 : i \in 1..n /\ i < n
    BY <1>0
  <2>3. \A i \in 1..n - 1 : frames'[p][i].pc \in {"script", "leave"}
    BY <2>1, <2>2 DEF OuterInv
  <2> QED BY <1>0, <1>1, <2>1, <2>3
<1> QED BY <1>2, <1>3, <1>4, <1>5, StepKinds

\* A call that owns the monitor of s.
Has(f, s) == f.on = s /\ (f.pc = "script" \/ (Locked(f.op, s) /\ f.pc # "enter"))

LEMMA HoldsByCall ==
  ASSUME FramesOK, NEW p \in Procs, NEW s
  PROVE  Holds(p, s) <=> \E i \in 1..Len(frames[p]) : Has(frames[p][i], s)
<1>1. DOMAIN frames[p] = 1..Len(frames[p])
  BY LenProperties DEF FramesOK
<1> QED BY <1>1 DEF Holds, Has

\* A step of p takes no monitor but that of the state its innermost call works on, and
\* that one only when no other process owns it.
LEMMA HoldsStep ==
  ASSUME FramesOK, OuterInv, NEW p \in Procs, Serve(p) \/ Step(p)
  PROVE  /\ \A q \in Procs \ {p} : \A s \in Procs : Holds(q, s)' <=> Holds(q, s)
         /\ \A s \in Procs : Holds(p, s)' => Holds(p, s) \/ CanTake(p, s)
<1> DEFINE n == Len(frames[p])
<1>0. n \in Nat /\ FramesOK' /\ \A q \in Procs \ {p} : frames'[q] = frames[q]
  BY FramesStep, LenProperties DEF FramesOK
<1>1. ASSUME NEW q \in Procs \ {p}, NEW s \in Procs PROVE Holds(q, s)' <=> Holds(q, s)
  BY <1>0, <1>1 DEF Holds
<1>2. ASSUME NEW s \in Procs, Holds(p, s)', ~Holds(p, s) PROVE CanTake(p, s)
  <2>1. PICK i \in 1..Len(frames'[p]) : Has(frames'[p][i], s)
    <3>1. DOMAIN frames'[p] = 1..Len(frames'[p])
      BY <1>0, LenProperties DEF FramesOK
    <3> QED BY <1>2, <3>1 DEF Holds, Has
  <2>2. \A j \in 1..n : ~Has(frames[p][j], s)
    BY <1>2, HoldsByCall
  <2>3. CASE \E op \in Op, u \in Procs : Begin(p, op, u)
    <3>1. PICK op \in Op, u \in Procs : Begin(p, op, u)
      BY <2>3
    <3>2. /\ Len(frames'[p]) = n + 1
          /\ \A j \in 1..n : frames'[p][j] = frames[p][j]
          /\ frames'[p][n + 1] = NewCall(op, u)
      BY <3>1, BeginShape
    <3>3. ~Has(NewCall(op, u), s)
      BY NewCallIsFrame DEF Has
    <3> QED BY <1>0, <2>1, <2>2, <3>2, <3>3
  <2>4. ASSUME Moves(p), NEW step \in Pc \ {"enter"}, step \in Steps[Current(p).op], GoTo(p, step)
        PROVE  CanTake(p, s)
    <3>1. frames[p] # << >> /\ Current(p) \in Frame
      BY <2>4, CurrentIsFrame DEF Moves
    <3>2. /\ Len(frames'[p]) = n
          /\ \A j \in 1..n : frames'[p][j] =
               IF j = n THEN [Current(p) EXCEPT !.pc = step] ELSE frames[p][j]
      BY <2>4, <3>1, GoToShape
    <3>3. Has([Current(p) EXCEPT !.pc = step], s)
      BY <2>1, <2>2, <3>2
    <3>4. Current(p).on = s
      BY <3>1, <3>3 DEF Has, Frame
    <3> QED BY <2>4, <3>4 DEF Moves
  <2>5. CASE Moves(p) /\ Leave(p)
    <3>1. Len(frames'[p]) = n - 1 /\ \A j \in 1..n - 1 : frames'[p][j] = frames[p][j]
      BY <2>5, LeaveShape DEF Moves
    <3> QED BY <1>0, <2>1, <2>2, <3>1
  <2>6. CASE Moves(p) /\ Fail(p)
    <3>1. frames[p] # << >> /\ Fail(p) /\ Current(p) \in Frame
      BY <2>6, CurrentIsFrame DEF Moves
    <3>2. \A j \in 1..n - 1 : ~Has(frames'[p][j], s)
      <4>1. \A j \in 1..n - 1 : frames'[p][j] = frames[p][j]
        BY <3>1, FailShape
      <4>2. \A j \in 1..n - 1 : j \in 1..n
        BY <1>0
      <4> QED BY <2>2, <4>1, <4>2
    <3>3. CASE /\ Len(frames'[p]) = n
               /\ Current(p).on = Main
               /\ Current(p)' = [op |-> "runFunc", on |-> Main, pc |-> "clear"]
      <4>1. Has([op |-> "runFunc", on |-> Main, pc |-> "clear"], s)
        BY <1>0, <2>1, <3>2, <3>3 DEF Current, Last
      <4> QED BY <2>6, <3>3, <4>1 DEF Has, Moves
    <3>4. CASE /\ Len(frames'[p]) = n
               /\ Current(p)' = [op |-> "runFunc", on |-> Main, pc |-> "enter"]
      <4>1. Has([op |-> "runFunc", on |-> Main, pc |-> "enter"], s)
        BY <1>0, <2>1, <3>2, <3>4 DEF Current, Last
      <4> QED BY <4>1 DEF Has
    <3>5. CASE /\ Len(frames'[p]) = n + 1
               /\ frames'[p][n] = [Current(p) EXCEPT !.pc = "leave"]
               /\ Current(p)' = [op |-> "runFunc", on |-> Main, pc |-> "enter"]
      <4>1. ~Has(frames'[p][n + 1], s)
        BY <3>5 DEF Current, Last, Has
      <4>2. Has([Current(p) EXCEPT !.pc = "leave"], s)
        BY <1>0, <2>1, <3>2, <3>5, <4>1
      <4>3. Current(p).on = s
        BY <3>1, <4>2 DEF Has, Frame
      <4> QED BY <2>6, <4>3 DEF Moves
    <3> QED BY <3>1, <3>3, <3>4, <3>5, FailShape
  <2> QED BY <2>3, <2>4, <2>5, <2>6, StepKinds
<1> QED BY <1>1, <1>2

\* So that no two processes come to own the same one.
LEMMA OwnerStep ==
  ASSUME FramesOK, OuterInv, OneOwner, NEW p \in Procs, Serve(p) \/ Step(p)
  PROVE  OneOwner'
<1>1. /\ \A q \in Procs \ {p} : \A s \in Procs : Holds(q, s)' <=> Holds(q, s)
      /\ \A s \in Procs : Holds(p, s)' => Holds(p, s) \/ \A q \in Procs \ {p} : ~Holds(q, s)
  BY HoldsStep DEF CanTake
<1> QED BY <1>1 DEF OneOwner

\* What a step leaves on the stack it writes to.
LEMMA WrittenType ==
  ASSUME TypeOK, FramesOK, NEW p \in Procs, frames[p] # << >>
  PROVE  /\ Current(p).on \in Procs
         /\ << >> \in Seq(Procs) /\ Popped(p) \in Seq(Procs)
         /\ Pushed(p) \in Seq(Procs) /\ Pushed(p) # << >> /\ Last(Pushed(p)) = p
<1> DEFINE st == stack[Current(p).on]
<1>1. Current(p).on \in Procs
  BY CurrentIsFrame DEF Frame
<1>2. st \in Seq(Procs)
  BY <1>1 DEF TypeOK
<1> HIDE DEF st
<1>3. /\ Append(st, p) \in Seq(Procs) /\ Append(st, p) # << >>
      /\ Len(Append(st, p)) = Len(st) + 1
      /\ Append(st, p)[Len(st) + 1] = p
  BY <1>2, AppendProperties
<1>4. CASE st = << >>
  BY <1>1, <1>3, <1>4 DEF Popped, Pushed, Last, st
<1>5. CASE st # << >>
  <2>1. Len(st) \in Nat /\ \A i \in 1..Len(st) - 1 : st[i] \in Procs
    BY <1>2, ElementOfSeq, LenProperties
  <2>2. SubSeq(st, 1, Len(st) - 1) \in Seq(Procs)
    BY <2>1, SubSeqProperties
  <2> QED BY <1>1, <1>3, <1>5, <2>2 DEF Popped, Pushed, Front, Last, st
<1> QED BY <1>4, <1>5

\* Every variable keeps its type.
LEMMA TypeStep ==
  ASSUME TypeOK, FramesOK, OuterInv, NEW p \in Procs, Serve(p) \/ Step(p)
  PROVE  TypeOK'
<1>1. /\ calls' \in 0 .. MaxCalls
      /\ stack' \in [Procs -> Seq(Procs)]
      /\ met' \subseteq Procs
  <2> DEFINE Goal == /\ calls' \in 0 .. MaxCalls
                     /\ stack' \in [Procs -> Seq(Procs)]
                     /\ met' \subseteq Procs
  <2>1. ASSUME NEW new \in Seq(Procs), Write(p, new)
        PROVE  stack' \in [Procs -> Seq(Procs)] /\ met' \subseteq Procs
    BY <2>1 DEF TypeOK, Write
  <2>2. ASSUME calls < MaxCalls, calls' = calls + 1 PROVE calls' \in 0 .. MaxCalls
    BY <2>2, LuaStatesAssumption DEF TypeOK
  <2>3. CASE \E op \in Op, s \in Procs : Begin(p, op, s)
    BY <2>2, <2>3 DEF Begin, TypeOK
  <2>4. CASE Serve(p)
    BY <2>3, <2>4 DEF Serve, Op
  <2>5. CASE Ask(p)
    BY <2>3, <2>5 DEF Ask, Op
  <2>6. CASE Enter(p) \/ Test(p) \/ LeaveCallback(p)
    BY <2>6 DEF Enter, Test, LeaveCallback, TypeOK
  <2>7. ASSUME frames[p] # << >>, UNCHANGED calls,
               Write(p, << >>) \/ Write(p, Pushed(p)) \/ Write(p, Popped(p))
        PROVE  Goal
    BY <2>1, <2>7, WrittenType DEF TypeOK
  <2>8. CASE Clear(p) \/ Push(p) \/ Call(p) \/ Return(p)
    BY <2>7, <2>8 DEF Clear, Push, Call, Return, At
  <2>9. CASE Use(p)
    BY <2>7, <2>9 DEF Use, At, TypeOK
  <2>10. CASE Fail(p)
    BY <2>1, <2>2, <2>10, WrittenType DEF Fail, At
  <2> QED BY <2>4, <2>5, <2>6, <2>8, <2>9, <2>10 DEF Step
<1>2. FramesOK'
  BY FramesStep
<1>3. FramesOK' => \A q \in Procs : \A i \in DOMAIN frames'[q] :
        LET f == frames'[q][i]
        IN f.on \in Procs /\ f.op \in DOMAIN Steps /\ f.pc \in Steps[f.op]
  <2> SUFFICES ASSUME FramesOK', NEW q \in Procs, NEW i \in DOMAIN frames'[q]
               PROVE  frames'[q][i] \in Frame
    BY StepsTable DEF Frame
  <2>1. frames'[q] \in Seq(Frame)
    BY DEF FramesOK
  <2> QED BY <2>1, ElementOfSeq, LenProperties
<1> QED BY <1>1, <1>2, <1>3 DEF TypeOK

\* A call that returns leaves its process in a script, or about to leave a monitor.
LEMMA LeaveNotUsing ==
  ASSUME FramesOK, OuterInv, NEW p \in Procs, frames[p] # << >>, Leave(p)
  PROVE  ~Using(p)'
<1> DEFINE n == Len(frames[p])
<1>1. n \in Nat \ {0} /\ Len(frames'[p]) = n - 1
      /\ \A i \in 1..n - 1 : frames'[p][i] = frames[p][i]
  BY CurrentIsFrame, LeaveShape
<1>2. CASE n = 1
  <2>1. Len(frames'[p]) = 0 /\ frames'[p] \in Seq(Frame)
    BY <1>1, <1>2, LeaveShape DEF FramesOK
  <2>2. frames'[p] = << >>
    BY <2>1, EmptySeq
  <2> QED BY <2>2 DEF Using
<1>3. CASE n # 1
  <2>1. n - 1 \in 1..n - 1 /\ n - 1 \in 1..n /\ n - 1 < n
    <3>1. n \in Nat \ {0}
      BY <1>1
    <3> HIDE DEF n
    <3> QED BY <1>3, <3>1
  <2>2. frames'[p][Len(frames'[p])] = frames[p][n - 1]
    BY <1>1, <2>1
  <2>3. frames[p][n - 1].pc \in {"script", "leave"}
    BY <2>1 DEF OuterInv
  <2> QED BY <2>2, <2>3 DEF Using, Current, Last
<1> QED BY <1>2, <1>3

\* The others are not disturbed by a step that leaves the stacks alone, ...
LEMMA OthersUndisturbed ==
  ASSUME ValueInv, NEW p \in Procs, UNCHANGED <<stack, met>>,
         \A q \in Procs \ {p} : frames'[q] = frames[q],
         NEW q \in Procs \ {p}, Using(q)'
  PROVE  Own(q)' \/ (q \in met' /\ ~Locked(Current(q)'.op, Current(q)'.on))
<1>1. Current(q)' = Current(q) /\ Using(q)
  BY DEF Current, Using
<1>2. Own(q)' <=> Own(q)
  BY <1>1 DEF Own
<1> QED BY <1>1, <1>2 DEF ValueInv

\* ... and a step that writes to one meets those that use it, none of which can be in a
\* method that keeps the monitor.
LEMMA OthersMet ==
  ASSUME FramesOK, TypeOK, ValueInv, NEW p \in Procs, Moves(p), NEW new, Write(p, new),
         \A q \in Procs \ {p} : frames'[q] = frames[q],
         NEW q \in Procs \ {p}, Using(q)'
  PROVE  Own(q)' \/ (q \in met' /\ ~Locked(Current(q)'.op, Current(q)'.on))
<1> DEFINE s == Current(p).on
           t == Current(q).on
<1>1. Current(q)' = Current(q) /\ Using(q)
  BY DEF Current, Using
<1>2. frames[q] # << >> /\ Current(q).pc \in {"test", "call", "use"} /\ t \in Procs /\ s \in Procs
  BY <1>1, CurrentIsFrame DEF Using, Frame, Moves
<1>3. CASE t = s
  <2>1. q \in met'
    BY <1>2, <1>3 DEF Write
  <2>2. ~Holds(q, t)
    BY <1>3 DEF Moves, CanTake
  <2>3. ~Has(Current(q), t)
    BY <1>2, <2>2, CurrentIsFrame, HoldsByCall
  <2>4. ~Locked(Current(q).op, t)
    BY <1>2, <2>3 DEF Has
  <2> QED BY <1>1, <2>1, <2>4
<1>4. CASE t # s
  <2>1. stack'[t] = stack[t]
    BY <1>2, <1>4 DEF Write, TypeOK
  <2>2. q \in met => q \in met'
    BY DEF Write
  <2>3. Own(q)' <=> Own(q)
    BY <1>1, <2>1 DEF Own
  <2> QED BY <1>1, <2>2, <2>3 DEF ValueInv
<1> QED BY <1>3, <1>4

\* A call that has just pushed a value uses that one.
LEMMA PushedIsOwn ==
  ASSUME FramesOK, TypeOK, NEW p \in Procs, frames[p] # << >>,
         Write(p, Pushed(p)), Current(p)'.on = Current(p).on
  PROVE  Own(p)'
<1>1. /\ Current(p).on \in Procs
      /\ Pushed(p) # << >> /\ Last(Pushed(p)) = p
  BY WrittenType
<1>2. stack'[Current(p).on] = Pushed(p)
  BY <1>1 DEF TypeOK, Write
<1>3. stack'[Current(p)'.on] = Pushed(p)
  BY <1>2
<1> QED BY <1>1, <1>3 DEF Own

\* The innermost call after GoTo.
LEMMA GoToCurrent ==
  ASSUME FramesOK, NEW p \in Procs, frames[p] # << >>, NEW step \in Pc \ {"enter"},
         step \in Steps[Current(p).op], GoTo(p, step)
  PROVE  Current(p)' = [Current(p) EXCEPT !.pc = step] /\ frames'[p] # << >>
<1>1. Len(frames[p]) \in Nat \ {0} /\ Len(frames[p]) \in 1..Len(frames[p])
  BY CurrentIsFrame
<1>2. /\ FramesOK'
      /\ Len(frames'[p]) = Len(frames[p])
      /\ \A i \in 1..Len(frames[p]) : frames'[p][i] =
           IF i = Len(frames[p]) THEN [Current(p) EXCEPT !.pc = step] ELSE frames[p][i]
  BY GoToShape
<1>3. Current(p)' = [Current(p) EXCEPT !.pc = step]
  BY <1>1, <1>2 DEF Current, Last
<1>4. frames'[p] # << >>
  BY <1>1, <1>2
<1> QED BY <1>3, <1>4

\* A process keeps its value, or knows that another one has come in between, and not
\* where the monitor is kept.
LEMMA ValueStep ==
  ASSUME FramesOK, TypeOK, OuterInv, ValueInv, NEW p \in Procs, Serve(p) \/ Step(p)
  PROVE  ValueInv'
<1> DEFINE Safe(q) == Own(q) \/ (q \in met /\ ~Locked(Current(q).op, Current(q).on))
<1>0. FramesOK' /\ \A q \in Procs \ {p} : frames'[q] = frames[q]
  BY FramesStep
\* What is left to show of each step: the other processes, and p itself.
<1>1. ASSUME \A q \in Procs \ {p} : Using(q)' => Safe(q)',
             Using(p)' => Safe(p)'
      PROVE  ValueInv'
  BY <1>1 DEF ValueInv
<1>2. ASSUME UNCHANGED <<stack, met>>, Using(p)' => Safe(p)' PROVE ValueInv'
  BY <1>0, <1>1, <1>2, OthersUndisturbed
<1>3. ASSUME Moves(p), NEW new, Write(p, new), Using(p)' => Safe(p)' PROVE ValueInv'
  BY <1>0, <1>1, <1>3, OthersMet
<1>4. ASSUME NEW step \in Pc, At(p, step)
      PROVE  /\ Moves(p) /\ frames[p] # << >> /\ Current(p).pc = step
             /\ Current(p) \in Frame /\ step \in Steps[Current(p).op]
  BY <1>4, CurrentIsFrame DEF At, Moves, Frame
<1>5. ASSUME frames[p] # << >>, NEW step \in Pc \ {"enter"}, step \in Steps[Current(p).op],
             GoTo(p, step), Current(p) \in Frame
      PROVE  /\ Current(p)'.pc = step
             /\ Current(p)'.on = Current(p).on /\ Current(p)'.op = Current(p).op
  BY <1>5, GoToCurrent DEF Frame
<1>6. ASSUME NEW op \in Op, NEW s \in Procs, Begin(p, op, s) PROVE ValueInv'
  <2>1. /\ Len(frames'[p]) = Len(frames[p]) + 1
        /\ frames'[p][Len(frames[p]) + 1] = NewCall(op, s)
    BY <1>6, BeginShape
  <2>2. Current(p)' = NewCall(op, s)
    BY <2>1 DEF Current, Last
  <2>3. ~Using(p)'
    BY <2>2, NewCallIsFrame DEF Using
  <2> QED BY <1>2, <1>6, <2>3 DEF Begin
<1>7. CASE Serve(p) \/ Ask(p)
  BY <1>6, <1>7 DEF Serve, Ask, Op
<1>8. CASE Enter(p)
  <2>1. At(p, "enter") /\ "enter" \in Pc /\ GoTo(p, First(Current(p).op))
    BY <1>8 DEF Enter, Pc
  <2>2. frames[p] # << >> /\ Current(p) \in Frame
    BY <1>4, <2>1
  <2>3. First(Current(p).op) \in {"clear", "push"} /\ First(Current(p).op) \in Steps[Current(p).op]
    BY <2>2, StepsTable DEF First, Op, Frame
  <2>4. Current(p)'.pc \in {"clear", "push"}
    BY <1>5, <2>1, <2>2, <2>3 DEF Pc
  <2> QED BY <1>2, <1>8, <2>4 DEF Enter, Using
<1>9. CASE Clear(p)
  <2>1. At(p, "clear") /\ "clear" \in Pc /\ GoTo(p, "push") /\ Write(p, << >>)
    BY <1>9 DEF Clear, Pc
  <2>2. Moves(p) /\ frames[p] # << >> /\ Current(p) \in Frame /\ "push" \in Steps[Current(p).op]
    BY <1>4, <2>1, StepsTable DEF Op, Frame
  <2>3. Current(p)'.pc = "push"
    BY <1>5, <2>1, <2>2 DEF Pc
  <2> QED BY <1>3, <2>1, <2>2, <2>3 DEF Using
<1>10. CASE Push(p)
  <2>1. At(p, "push") /\ "push" \in Pc /\ GoTo(p, AfterPush(Current(p).op)) /\ Write(p, Pushed(p))
    BY <1>10 DEF Push, Pc
  <2>2. Moves(p) /\ frames[p] # << >> /\ Current(p) \in Frame
    BY <1>4, <2>1
  <2>3. /\ AfterPush(Current(p).op) \in {"test", "call", "use"}
        /\ AfterPush(Current(p).op) \in Steps[Current(p).op]
    BY <2>2, StepsTable DEF AfterPush, Op, Frame
  <2>4. Current(p)'.on = Current(p).on
    BY <1>5, <2>1, <2>2, <2>3 DEF Pc
  <2>5. Own(p)'
    BY <2>1, <2>2, <2>4, PushedIsOwn
  <2> QED BY <1>3, <2>1, <2>2, <2>5
<1>11. CASE Test(p)
  <2>1. At(p, "test") /\ "test" \in Pc /\ UNCHANGED <<stack, met>>
    BY <1>11 DEF Test, Pc
  <2>2. frames[p] # << >> /\ Current(p) \in Frame /\ "call" \in Steps[Current(p).op] /\ Using(p)
    BY <1>4, <2>1, StepsTable DEF Op, Frame, Using
  <2>3. CASE Leave(p)
    BY <1>2, <2>1, <2>2, <2>3, LeaveNotUsing
  <2>4. CASE GoTo(p, "call")
    <3>1. Current(p)'.on = Current(p).on /\ Current(p)'.op = Current(p).op
      BY <1>5, <2>2, <2>4 DEF Pc
    <3>2. Safe(p)
      BY <2>2 DEF ValueInv
    <3>3. Safe(p)'
      BY <2>1, <3>1, <3>2 DEF Own
    <3> QED BY <1>2, <2>1, <3>3
  <2> QED BY <1>11, <2>3, <2>4 DEF Test
<1>12. CASE Call(p)
  <2>1. At(p, "call") /\ "call" \in Pc /\ GoTo(p, "script") /\ Write(p, Popped(p))
    BY <1>12 DEF Call, Pc
  <2>2. Moves(p) /\ frames[p] # << >> /\ Current(p) \in Frame /\ "script" \in Steps[Current(p).op]
    BY <1>4, <2>1, StepsTable DEF Op, Frame
  <2>3. Current(p)'.pc = "script"
    BY <1>5, <2>1, <2>2 DEF Pc
  <2> QED BY <1>3, <2>1, <2>2, <2>3 DEF Using
<1>13. CASE Return(p)
  <2>1. At(p, "script") /\ "script" \in Pc /\ Write(p, Pushed(p))
    BY <1>13 DEF Return, Pc
  <2>2. Moves(p) /\ frames[p] # << >> /\ Current(p) \in Frame
    BY <1>4, <2>1
  <2>3. CASE Leave(p)
    BY <1>3, <2>1, <2>2, <2>3, LeaveNotUsing
  <2>4. CASE Current(p).op = "doString" /\ GoTo(p, "use")
    <3>1. Current(p)'.on = Current(p).on
      BY <1>5, <2>2, <2>4, StepsTable DEF Pc
    <3>2. Own(p)'
      BY <2>1, <2>2, <3>1, PushedIsOwn
    <3> QED BY <1>3, <2>1, <2>2, <3>2
  <2> QED BY <1>13, <2>3, <2>4 DEF Return
<1>14. CASE Use(p)
  <2>1. At(p, "use") /\ "use" \in Pc /\ Leave(p)
    BY <1>14 DEF Use, Pc
  <2>2. Moves(p) /\ frames[p] # << >> /\ ~Using(p)'
    BY <1>4, <2>1, LeaveNotUsing
  <2>3. Write(p, Popped(p)) \/ UNCHANGED <<stack, met>>
    BY <1>14 DEF Use
  <2> QED BY <1>2, <1>3, <2>2, <2>3
<1>15. CASE LeaveCallback(p)
  <2>1. At(p, "leave") /\ "leave" \in Pc /\ Leave(p) /\ UNCHANGED <<stack, met>>
    BY <1>15 DEF LeaveCallback, Pc
  <2> QED BY <1>2, <1>4, <2>1, LeaveNotUsing
<1>16. CASE Fail(p)
  <2>1. At(p, "script") /\ "script" \in Pc /\ Write(p, Pushed(p))
    BY <1>16 DEF Fail, Pc
  <2>2. Moves(p) /\ frames[p] # << >>
    BY <1>4, <2>1
  <2>3. Current(p)' \in {[op |-> "runFunc", on |-> Main, pc |-> "clear"],
                         [op |-> "runFunc", on |-> Main, pc |-> "enter"]}
    BY <1>16, <2>2, FailShape
  <2>4. ~Using(p)'
    BY <2>3 DEF Using
  <2> QED BY <1>3, <2>1, <2>2, <2>4
<1> QED
  BY <1>7, <1>8, <1>9, <1>10, <1>11, <1>12, <1>13, <1>14, <1>15, <1>16 DEF Step

-----------------------------------------------------------------------------
(* The theorems.                                                            *)

\* The invariant holds at the start.
LEMMA InitInv == Init => IInv
<1> SUFFICES ASSUME Init PROVE IInv
  OBVIOUS
<1>1. \A p \in Procs : frames[p] = << >>
  BY DEF Init
<1>2. FramesOK /\ TypeOK
  BY LuaStatesAssumption DEF Init, FramesOK, TypeOK
<1>3. OuterInv /\ OneOwner /\ ValueInv
  BY <1>1 DEF OuterInv, OneOwner, Holds, ValueInv, Using
<1> QED BY <1>2, <1>3 DEF IInv

\* Every step keeps it.
LEMMA InvStep == IInv /\ [Next]_vars => IInv'
<1> SUFFICES ASSUME IInv, [Next]_vars PROVE IInv'
  OBVIOUS
<1>1. ASSUME NEW p \in Procs, Serve(p) \/ Step(p) PROVE IInv'
  BY <1>1, FramesStep, TypeStep, OwnerStep, ValueStep DEF IInv
<1>2. CASE UNCHANGED vars
  <2>1. FramesOK' /\ TypeOK' /\ OuterInv'
    BY <1>2 DEF IInv, FramesOK, TypeOK, OuterInv, vars
  <2>2. OneOwner' /\ ValueInv'
    BY <1>2 DEF IInv, OneOwner, Holds, ValueInv, Using, Own, Current, vars
  <2> QED BY <2>1, <2>2 DEF IInv
<1> QED BY <1>1, <1>2 DEF Next

\* It holds in every reachable state.
LEMMA Invariant == Spec => []IInv
BY InitInv, InvStep, PTL DEF Spec

\* Every variable keeps its type, and every call is at a step that its method has.
THEOREM TypeCorrect == Spec => []TypeOK
BY Invariant, PTL DEF IInv

\* A monitor has one owner, however the scripts of the states call each other.
THEOREM MonitorsExclude == Spec => []OneOwner
BY Invariant, PTL DEF IInv

\* A method works on the value it pushed itself, or another process came in between,
\* which it cannot in the methods that keep the monitor.
THEOREM ValueIsOwn == Spec => OwnValueUsed
<1> DEFINE UsesOwn == \A p \in Procs : Takes(p) =>
      LET f == Current(p)
          own == stack[f.on] # << >> /\ Last(stack[f.on]) = p
      IN own \/ (p \in met /\ f.op # "callback" /\ (f.on = Main => f.op = "doString"))
<1>1. IInv => UsesOwn
  <2> SUFFICES ASSUME IInv, NEW p \in Procs, Takes(p)
               PROVE  Own(p) \/ (p \in met /\ ~Locked(Current(p).op, Current(p).on))
    BY DEF Own, Locked
  <2>1. Using(p)
    BY DEF Takes, Test, Call, Use, At, Using
  <2> QED BY <2>1 DEF IInv, ValueInv
<1> HIDE DEF UsesOwn
<1>2. Spec => [][UsesOwn]_vars
  BY <1>1, Invariant, PTL
<1> QED BY <1>2 DEF OwnValueUsed, UsesOwn
=============================================================================
