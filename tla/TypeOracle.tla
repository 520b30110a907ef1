------------------------------ MODULE TypeOracle ------------------------------
(***************************************************************************)
(* What the script type cache promises to the threads that validate: a     *)
(* lookup answers the type of the script it was given.  Neither the cache  *)
(* nor its clearing, its limit or its statistics can be seen.              *)
(***************************************************************************)
CONSTANTS Threads, Scripts,
          Type,             \* of each script
          Absent            \* no script, no answer

VARIABLES asked,            \* the script each thread asks about
          answer            \* what it is answered

Init ==
  /\ asked = [t \in Threads |-> Absent]
  /\ answer = [t \in Threads |-> Absent]

Ask(t, s) ==
  /\ asked[t] = Absent
  /\ asked' = [asked EXCEPT ![t] = s]
  /\ UNCHANGED answer

Answer(t) ==
  /\ asked[t] # Absent
  /\ answer[t] = Absent
  /\ answer' = [answer EXCEPT ![t] = Type[asked[t]]]
  /\ UNCHANGED asked

Take(t) ==
  /\ answer[t] # Absent
  /\ asked' = [asked EXCEPT ![t] = Absent]
  /\ answer' = [answer EXCEPT ![t] = Absent]

Next == \E t \in Threads : Answer(t) \/ Take(t) \/ \E s \in Scripts : Ask(t, s)

Spec == Init /\ [][Next]_<<asked, answer>>
=============================================================================
