--------------------------- MODULE ElectionTimely ---------------------------
(***************************************************************************)
(* The election under the timing the code is configured for: the interval  *)
(* timer (electionIntervalMs, 500 by default) fires on every started node, *)
(* and a reconciliation ends before the next one is due, so that a lease   *)
(* (leaseMs, 1500 by default) spans several of them.  One Tick is one      *)
(* interval: it waits until every started node has reconciled.             *)
(***************************************************************************)
EXTENDS Election

VARIABLE ran    \* the workers that reconciled since the last Tick

timelyVars == <<vars, ran>>

TimelyInit == Init /\ ran = {}

(* A worker of a started node reconciles once an interval.                 *)
NoteRan(w) == ran' = IF pc'[w] = "idle" THEN ran \cup {w} ELSE ran

Round(w) ==
  /\ \/ pc[w] = "begin" /\ Survey(w)
     \/ w \notin ran /\ Survey(w)
     \/ Elect(w) \/ GiveUp(w) \/ Write(w)
     \/ \E v \in Node : Ask(w, v) \/ AskFails(w, v) \/ AskTimesOut(w, v)
  /\ NoteRan(w)

AdminCall(w) == Admin(w) /\ UNCHANGED ran

Around ==
  /\ \/ \E n \in Node : Lifecycle(n)
     \/ \E m \in late : Deliver(m)
     \/ \E r \in Reaches : SetReach(r)
  /\ UNCHANGED ran

Interval ==
  /\ \A w \in Worker : pc[w] = "idle" /\ (Host[w] \in Serving => w \in ran)
  /\ Tick
  /\ ran' = {}

TimelyNext ==
  \/ \E w \in Worker : Round(w) \/ AdminCall(w)
  \/ Around
  \/ Interval

(* setInterval keeps firing, every RPC ends within its timeout, a call     *)
(* that was begun goes on, and a stopped process exits.                    *)
Fairness ==
  /\ \A w \in Worker :
       /\ WF_timelyVars(Round(w))
       /\ WF_timelyVars((ForceWrite(w) \/ RemoveAssignment(w)) /\ UNCHANGED ran)
  /\ \A n \in Node : WF_timelyVars(ExitAfterStop(n) /\ UNCHANGED ran)
  /\ WF_timelyVars(Interval)

TimelySpec == TimelyInit /\ [][TimelyNext]_timelyVars /\ Fairness

-----------------------------------------------------------------------------
(* A shard that is defined and has a member running gets, after any stop,  *)
(* loss, delay or admin call, a healthy leader whose process runs.         *)
(* (README.md of cord, 8.1: "Must handle failures and re-election".)       *)
Electable == shard /\ Serving \cap member # {}
LeaderReturns == Electable ~> (~Electable \/ Leader \in Serving)

(* Once stops, losses, delays and admin calls have ceased, leadership comes *)
(* to rest: the shard keeps one running leader, renewed before it lapses.  *)
LeaderSettles ==
  \E n \in NodeOrNone : <>[](Leader = n /\ (Electable => n \in Serving))

=============================================================================
