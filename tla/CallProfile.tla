----------------------------- MODULE CallProfile -----------------------------
(***************************************************************************)
(* What the profiler promises its callers, whichever build serves them: at *)
(* any time it knows for each thread the path of instrumented calls that   *)
(* are open in it, each measurement is charged to the path on which its    *)
(* call was made, and nothing but a call or its return moves either.       *)
(* (README, "Overview" and "Logged data": the level of an element in the   *)
(* call stack, and the next instrumented element below it.)                *)
(***************************************************************************)
EXTENDS Sequences, Naturals

CONSTANTS Threads, Records, Names, NoFrame

VARIABLES calls,     \* calls[t]: the names of the open calls of thread t
          frame      \* frame[r]: the thread and path of measurement r

profile == <<calls, frame>>

Init ==
  /\ calls = [t \in Threads |-> <<>>]
  /\ frame = [r \in Records |-> NoFrame]

\* Thread t enters the element `name' and measures it with r.
Enter(r, t, name) ==
  /\ frame[r] = NoFrame
  /\ frame' = [frame EXCEPT ![r] = [thread |-> t, path |-> Append(calls[t], name)]]
  /\ calls' = [calls EXCEPT ![t] = Append(@, name)]

\* The innermost call of thread t, measured by r, returns.
Leave(r, t) ==
  /\ frame[r] # NoFrame
  /\ frame' = [frame EXCEPT ![r] = NoFrame]
  /\ calls[t] # <<>>
  /\ frame[r] = [thread |-> t, path |-> calls[t]]
  /\ calls' = [calls EXCEPT ![t] = SubSeq(@, 1, Len(@) - 1)]

Next == \E r \in Records, t \in Threads :
          Leave(r, t) \/ \E name \in Names : Enter(r, t, name)

Spec == Init /\ [][Next]_profile
=============================================================================
