------------------------- MODULE MeteringProperties -------------------------
(* What the ledger must say of every subject, whatever the meter missed.    *)
EXTENDS Metering

\* metering.py "EXACTLY-ONCE per pod": on the disk a uid's opens and closes
\* alternate, and a segment begins no earlier than the one before it ended
\* (a pod's begins exactly there: it held its devices all the while).
ExactlyOnce ==
  \A u \in Subjects : \A i \in Of(file, u, "open") :
    LET before == {j \in 1..(i - 1) : file[j].uid = u} IN
    before # {} =>
      LET last == file[Latest(before)] IN
      /\ last.event = "close"
      /\ file[i].at >= last.at /\ (u \in Pods => file[i].at = last.at)

\* "A broken ledger is an ALERT": with no write error the chain never breaks,
\* and what /usage and /metrics read from memory is what is on the disk.
ChainHolds == chainOk /\ Chained(file) /\ (pc # "down" => records = file)

\* Every second of a registered pod that stayed to be read is billed, and no
\* other: it ends up with one interval from its startTime to its finishedAt.
TerminalExact ==
  \A u \in Pods \ LabelOnly :
    Terminal(world[u]) /\ world[u].told ~>
      \/ world[u].phase = "gone"
      \/ \E i \in Of(file, u, "close") :
           file[i].at = world[u].stop /\ file[i].from = world[u].start

\* Nothing that stopped holding its devices is billed for ever, the meter's
\* restarts and blind ticks notwithstanding.
IntervalsEnd ==
  \A u \in Subjects :
    world[u].phase \in {"ended", "gone", "vanished"} ~> u \notin OpenUids(file)

FairSpec == Spec /\ WF_vars(Meter)

=============================================================================
