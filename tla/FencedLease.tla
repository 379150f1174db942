---------------------------- MODULE FencedLease ----------------------------
(***************************************************************************)
(* What the scheduler lease promises to the code that runs under it.  A    *)
(* token is granted at most once, at most one token is entitled at a time, *)
(* and fenced state is only ever written by the token that is entitled at  *)
(* the moment the write becomes visible.  SchedulerLease implements this   *)
(* specification for the transactions that lock the lease row.             *)
(***************************************************************************)
EXTENDS Naturals

CONSTANT Token          \* the tokens of the fencing sequence

None == 0               \* no token; the sequence starts at 1

VARIABLES
    entitled,           \* the token that may write, or None
    granted,            \* every token that was ever entitled
    writer              \* the token of the latest fenced write, or None

vars == <<entitled, granted, writer>>

Init == /\ entitled = None
        /\ granted = {}
        /\ writer = None

(* A new owner takes the lease; whoever held it is superseded for good. *)
Grant(t) == /\ t \notin granted
            /\ entitled' = t
            /\ granted' = granted \cup {t}
            /\ UNCHANGED writer

(* The owner gives the lease back. *)
Revoke == /\ entitled # None
          /\ entitled' = None
          /\ UNCHANGED <<granted, writer>>

(* The entitled owner publishes fenced state. *)
Write == /\ entitled # None
         /\ writer' = entitled
         /\ UNCHANGED <<entitled, granted>>

Next == Revoke \/ Write \/ \E t \in Token : Grant(t)

Spec == Init /\ [][Next]_vars
=============================================================================
