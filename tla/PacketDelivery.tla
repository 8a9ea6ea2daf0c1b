--------------------------- MODULE PacketDelivery ---------------------------
(***************************************************************************)
(* What the live pipeline promises about packets, without threads or        *)
(* queues.  Every received packet is batched, then either accepted or       *)
(* dropped with its whole batch; an accepted packet is parsed at most once; *)
(* and a run that reports no worker failure has parsed all it accepted.     *)
(***************************************************************************)
CONSTANT Packets

VARIABLES stage, verdict

vars == <<stage, verdict>>

Init ==
  /\ stage = [p \in Packets |-> "unseen"]
  /\ verdict = "running"

Receive(p) ==
  /\ stage[p] = "unseen"
  /\ stage' = [stage EXCEPT ![p] = "pending"]
  /\ UNCHANGED verdict

\* The pending batch, together with the packets of Last, which have just been
\* received and complete it, leaves as a whole.
Flush(Last, outcome) ==
  /\ \A p \in Last : stage[p] = "unseen"
  /\ stage' = [p \in Packets |->
                 IF p \in Last \/ stage[p] = "pending" THEN outcome ELSE stage[p]]
  /\ UNCHANGED verdict

Parse(p) ==
  /\ stage[p] = "accepted"
  /\ stage' = [stage EXCEPT ![p] = "parsed"]
  /\ UNCHANGED verdict

Settled == \A p \in Packets : stage[p] \in {"unseen", "dropped", "parsed"}

\* The run returns: "complete" only if nothing received is unaccounted for.
Report ==
  /\ verdict = "running"
  /\ \/ Settled /\ verdict' = "complete"
     \/ verdict' = "failed"
  /\ UNCHANGED stage

Next ==
  \/ \E p \in Packets : Receive(p) \/ Parse(p)
  \/ \E Last \in {{}} \union {{p} : p \in Packets}, outcome \in {"accepted", "dropped"} :
       Flush(Last, outcome)
  \/ Report

Spec == Init /\ [][Next]_vars
=============================================================================
