---------------------------- MODULE OrderedCalls ----------------------------
(***************************************************************************)
(* What the agent promises about the tool calls of one model turn, however *)
(* it schedules them: calls are submitted one after another, a call that   *)
(* is not parallel safe runs alone and in program order, parallel safe     *)
(* calls between two such barriers may overlap up to MaxParallel, and no   *)
(* call runs twice.  ToolScheduler implements it.                          *)
(***************************************************************************)
EXTENDS Naturals, FiniteSets

CONSTANTS Calls,        \* positions of the calls of a turn, 1 .. N
          MaxParallel   \* parallel safe calls that may run at once

VARIABLES kind,         \* "none" until submitted, then how it is scheduled
          st            \* "idle", "running" or "done"

vars == <<kind, st>>

Kinds == {"safe", "serial", "bad"}

\* Two calls may overlap only when both are parallel safe.
Ordered(i, j) == kind[i] # "safe" \/ kind[j] # "safe"

\* Everything i has to wait for is done.
MayStart(i) == \A j \in Calls : j < i /\ Ordered(i, j) => st[j] = "done"

Running == {i \in Calls : st[i] = "running"}
-----------------------------------------------------------------------------
Init == /\ kind = [i \in Calls |-> "none"]
        /\ st = [i \in Calls |-> "idle"]

Submit(i, k) ==
    /\ kind[i] = "none"
    /\ \A j \in Calls : j < i => kind[j] # "none"
    /\ kind' = [kind EXCEPT ![i] = k]
    /\ UNCHANGED st

Start(i) ==
    /\ kind[i] \in {"safe", "serial"}
    /\ st[i] = "idle"
    /\ MayStart(i)
    /\ kind[i] = "safe" => Cardinality(Running) < MaxParallel
    /\ st' = [st EXCEPT ![i] = "running"]
    /\ UNCHANGED kind

Finish(i) ==
    /\ st[i] = "running"
    /\ st' = [st EXCEPT ![i] = "done"]
    /\ UNCHANGED kind

\* A refused call, or one cancelled before it got a slot, ends without running.
Skip(i) ==
    /\ kind[i] \in {"safe", "bad"}
    /\ st[i] = "idle"
    /\ MayStart(i)
    /\ st' = [st EXCEPT ![i] = "done"]
    /\ UNCHANGED kind

\* The next turn begins when every call of this one has ended.
NewTurn ==
    /\ \A i \in Calls : kind[i] # "none" => st[i] = "done"
    /\ kind' = [i \in Calls |-> "none"]
    /\ st' = [i \in Calls |-> "idle"]

Next == \/ \E i \in Calls, k \in Kinds : Submit(i, k)
        \/ \E i \in Calls : Start(i) \/ Finish(i) \/ Skip(i)
        \/ NewTurn

Spec == Init /\ [][Next]_vars
=============================================================================
