----------------------------- MODULE Semaphore -----------------------------
(***************************************************************************)
(* What a semaphore promises its users, without run queue or wait lists:   *)
(* a nonnegative number of units, and threads that are inside sema_down(). *)
(***************************************************************************)
EXTENDS Integers

CONSTANTS Thread, Sema, NULL

VARIABLES units,   \* units[s]: how many downs may complete
          inside   \* inside[t]: the semaphore t is held up in, or NULL

svars == <<units, inside>>

Init == /\ units = [s \in Sema |-> 0]
        /\ inside = [t \in Thread |-> NULL]

Up(s) == /\ units' = [units EXCEPT ![s] = @ + 1]
         /\ UNCHANGED inside

\* A down that need not wait.
Take(s) == /\ units[s] > 0
           /\ units' = [units EXCEPT ![s] = @ - 1]
           /\ UNCHANGED inside

Enter(t, s) == /\ units[s] = 0
               /\ inside[t] = NULL
               /\ inside' = [inside EXCEPT ![t] = s]
               /\ UNCHANGED units

Leave(t, s) == /\ inside[t] = s
               /\ units[s] > 0
               /\ units' = [units EXCEPT ![s] = @ - 1]
               /\ inside' = [inside EXCEPT ![t] = NULL]

Next == \/ \E s \in Sema : Up(s) \/ Take(s)
        \/ \E t \in Thread, s \in Sema : Enter(t, s) \/ Leave(t, s)

\* Some unit is taken while a thread is held up.
Serve(s) == /\ \E t \in Thread : inside[t] = s
            /\ Take(s) \/ \E t \in Thread : Leave(t, s)

\* Units that stay available while a thread is held up get used.
Progress == \A s \in Sema : WF_svars(Serve(s))

SafeSpec == Init /\ [][Next]_svars
Spec == SafeSpec /\ Progress
====
