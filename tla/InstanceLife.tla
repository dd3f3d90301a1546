---------------------------- MODULE InstanceLife ----------------------------
(***************************************************************************)
(* What hipObjInit() and hipObjShutdown() promise (the Shutdown paragraph of   *)
(* src/include/hipobj.h, and src/src/state.h): at most one instance is current *)
(* at a time; a call uses the one that's current when it starts, for as long   *)
(* as it lasts; an instance that was shut down is released, once, when no call *)
(* uses it. How it's built, and which call releases it, is left open.          *)
(***************************************************************************)
CONSTANTS Frames, Instances

VARIABLES
  life,   \* life[i]: "absent", "current", or "retired" once it's shut down
  users   \* users[i]: the calls that use instance i

lifeVars == <<life, users>>

Init ==
  /\ life = [i \in Instances |-> "absent"]
  /\ users = [i \in Instances |-> {}]

Publish(i) ==
  /\ life[i] = "absent"
  /\ \A j \in Instances : life[j] # "current"
  /\ life' = [life EXCEPT ![i] = "current"]
  /\ UNCHANGED users

Retire(i) ==
  /\ life[i] = "current"
  /\ life' = [life EXCEPT ![i] = "retired"]
  /\ UNCHANGED users

Enter(f, i) ==
  /\ life[i] = "current"
  /\ users' = [users EXCEPT ![i] = @ \cup {f}]
  /\ UNCHANGED life

Leave(f, i) ==
  /\ users' = [users EXCEPT ![i] = @ \ {f}]
  /\ UNCHANGED life

Release(i) ==
  /\ life[i] = "retired"
  /\ users[i] = {}
  /\ life' = [life EXCEPT ![i] = "absent"]
  /\ UNCHANGED users

Next ==
  \E i \in Instances :
    \/ Publish(i) \/ Retire(i) \/ Release(i)
    \/ \E f \in Frames : Enter(f, i) \/ Leave(f, i)

Spec == Init /\ [][Next]_lifeVars

=============================================================================
