----------------------------- MODULE CallService -----------------------------
(***************************************************************************)
(* What a looping LuaThread promises to those who call it: it comes up     *)
(* once and closes once; a request is accepted only while it is up and     *)
(* refused, not dropped, when it is not; accepted requests are served one  *)
(* at a time, each at most once; and a request that was accepted is lost   *)
(* only by closing.                                                        *)
(***************************************************************************)
CONSTANTS Thread, Msg, Nobody

VARIABLES
  state,     \* of each thread: down, up, closing, closed
  outcome,   \* of each request: unsent, refused, pending, started, handled, lost
  dest       \* the thread a request was sent to

vars == <<state, outcome, dest>>

Init ==
  /\ state = [t \in Thread |-> "down"]
  /\ outcome = [m \in Msg |-> "unsent"]
  /\ dest = [m \in Msg |-> Nobody]

Open(t) ==
  /\ state[t] = "down"
  /\ state' = [state EXCEPT ![t] = "up"]
  /\ UNCHANGED <<outcome, dest>>

Close(t) ==
  /\ state[t] = "up"
  /\ state' = [state EXCEPT ![t] = "closing"]
  /\ UNCHANGED <<outcome, dest>>

\* A caller gets its answer at once: the request is pending, or it is refused.
Send(t, m) ==
  /\ outcome[m] = "unsent"
  /\ dest' = [dest EXCEPT ![m] = t]
  /\ outcome' = [outcome EXCEPT ![m] = IF state[t] = "up" THEN "pending" ELSE "refused"]
  /\ UNCHANGED state

\* It may still fail on the way, and the caller is told by an error.
Withdraw(t, m) ==
  /\ outcome[m] = "pending"
  /\ dest[m] = t
  /\ state[t] # "down"
  /\ outcome' = [outcome EXCEPT ![m] = "refused"]
  /\ UNCHANGED <<state, dest>>

Serve(t, m) ==
  /\ outcome[m] = "pending"
  /\ dest[m] = t
  /\ state[t] \in {"up", "closing"}
  /\ \A n \in Msg : dest[n] = t => outcome[n] # "started"
  /\ outcome' = [outcome EXCEPT ![m] = "started"]
  /\ UNCHANGED <<state, dest>>

\* A request that was started is completed, also when the service closes
\* meanwhile; an error of the code it carries may close it.
Complete(t, m) ==
  /\ outcome[m] = "started"
  /\ dest[m] = t
  /\ outcome' = [outcome EXCEPT ![m] = "handled"]
  /\ \/ UNCHANGED state
     \/ state[t] = "up" /\ state' = [state EXCEPT ![t] = "closing"]
  /\ UNCHANGED dest

\* The service shuts, or has shut, and drops some requests nobody has started.
Shut(t) ==
  /\ state[t] \in {"closing", "closed"}
  /\ state' = [state EXCEPT ![t] = "closed"]
  /\ \E lost \in SUBSET {m \in Msg : dest[m] = t /\ outcome[m] = "pending"} :
       outcome' = [m \in Msg |-> IF m \in lost THEN "lost" ELSE outcome[m]]
  /\ UNCHANGED dest

Next ==
  \E t \in Thread :
    \/ Open(t) \/ Close(t) \/ Shut(t)
    \/ \E m \in Msg : Send(t, m) \/ Withdraw(t, m) \/ Serve(t, m) \/ Complete(t, m)

Spec == Init /\ [][Next]_vars

=============================================================================
