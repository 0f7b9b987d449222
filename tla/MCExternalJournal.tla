------------------------ MODULE MCExternalJournal ------------------------
EXTENDS ExternalJournal, TLC
CONSTANTS o1, w1, w2, c1, c2
MCOps == {o1}
MCWorkers == {w1, w2}
MCCapsules == {c1, c2}
\* A selection of what the consumers record (turn_phases.rs,
\* audio_transcription/journal.rs, computer/coordinator.rs): a step that leaves the
\* operation open, a refusal, the success a cancellation forbids, and the
\* cancellation. failed, submission_unknown, cancelled and completed_after_cancel
\* are recorded too; the theorems hold for them as well.
MCOutcomes == {"accepted", "rejected", "succeeded", "cancellation_requested"}
Symmetry == Permutations(MCWorkers) \cup Permutations(MCCapsules)

\* Bound: two faults of the database and the spool together. After the second
\* outage one worker is left, and only then does a ticket take a fourth outcome:
\* what a second outage adds is what two fallbacks of one ticket leave behind.
Focus ==
  /\ used.outages + used.spool <= 2
  /\ used.outages = 2 => \E w \in Workers : \A v \in Workers \ {w} : At(v, "idle")
  /\ \A w \in Workers : (ticket[w] # None /\ ticket[w].calls = 4) => used.outages = 2
==========================================================================
