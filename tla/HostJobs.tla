------------------------------- MODULE HostJobs -------------------------------
(***************************************************************************)
(* The timers' jobs: the backups, the archive of failed runs, Home         *)
(* Assistant's updates, the state memory, the monthly digests of the       *)
(* research notes.  They share no state, so each behaviour has one of them *)
(* at work.                                                                *)
(***************************************************************************)
EXTENDS Backups

CONSTANTS
  MaxEntry, MaxMonth, Limit, ArchiveFail,        \* of FailureArchive
  MaxRelease, MaxFault,                          \* of HomeAssistantUpdate
  MaxTruth, Batch, MaxEdit, MemoryFail,                \* of StateRow
  LastMonth, MaxDaily, MaxBusy, DigestFail       \* of ResearchDigest

ASSUME JobsAssumption == MaxMonth \in Nat \ {0} /\ MaxTruth \in Nat

VARIABLES
  part,
  entry, late, month, live, packed, aState, aRun, aFails,
  behind, unloaded, unbooted, up, hRun, verdict, released, hFaults,
  truth, memory, mRun, newer, job, edits, mFails,
  thisMonth, notes, digested, todo, dRun, dFails

ofArchive == <<entry, late, month, live, packed, aState, aRun, aFails>>
ofUpdates == <<behind, unloaded, unbooted, up, hRun, verdict, released, hFaults>>
ofMemory  == <<truth, memory, mRun, newer, job, edits, mFails>>
ofDigests == <<thisMonth, notes, digested, todo, dRun, dFails>>
all       == <<part, vars, ofArchive, ofUpdates, ofMemory, ofDigests>>

Archive == INSTANCE FailureArchive WITH
  MaxFail <- ArchiveFail, state <- aState, run <- aRun, fails <- aFails

Updates == INSTANCE HomeAssistantUpdate WITH run <- hRun, faults <- hFaults

Memory == INSTANCE StateRow WITH
  MaxFail <- MemoryFail, row <- memory, run <- mRun, fails <- mFails

Digests == INSTANCE ResearchDigest WITH
  MaxMonth <- LastMonth, MaxFail <- DigestFail,
  month <- thisMonth, daily <- notes, digest <- digested, task <- todo, run <- dRun, fails <- dFails

JobsInit ==
  /\ part \in {"backups", "archive", "updates", "memory", "digests"}
  /\ Init /\ Archive!Init /\ Updates!Init /\ Memory!Init /\ Digests!Init

OfBackups(A) == part = "backups" /\ A /\ UNCHANGED <<part, ofArchive, ofUpdates, ofMemory, ofDigests>>
OfArchive(A) == part = "archive" /\ A /\ UNCHANGED <<part, vars, ofUpdates, ofMemory, ofDigests>>
OfUpdates(A) == part = "updates" /\ A /\ UNCHANGED <<part, vars, ofArchive, ofMemory, ofDigests>>
OfMemory(A)  == part = "memory" /\ A /\ UNCHANGED <<part, vars, ofArchive, ofUpdates, ofDigests>>
OfDigests(A) == part = "digests" /\ A /\ UNCHANGED <<part, vars, ofArchive, ofUpdates, ofMemory>>

JobsNext ==
  OfBackups(Next) \/ OfArchive(Archive!Next) \/ OfUpdates(Updates!Next) \/ OfMemory(Memory!Next)
  \/ OfDigests(Digests!Next)

FairJobs ==
  /\ JobsInit /\ [][JobsNext]_all
  /\ WF_all(OfBackups(Start /\ ~ran)) /\ WF_all(OfBackups(Step)) /\ WF_all(OfBackups(Night))
  /\ WF_all(OfArchive(Archive!Step))
  /\ WF_all(OfUpdates(Updates!Step)) /\ WF_all(OfUpdates(Updates!ComeUp))
  /\ WF_all(OfMemory(Memory!Refresh)) /\ WF_all(OfMemory(Memory!Pick)) /\ WF_all(OfMemory(Memory!Embed))
  /\ WF_all(OfDigests(Digests!Job))
  /\ \A m \in Digests!Month : /\ WF_all(OfDigests(Digests!Take(m))) /\ WF_all(OfDigests(Digests!Supersede(m)))
                              /\ WF_all(OfDigests(Digests!End(m)))

\* What three jobs have in their keeping: the good copies of a backup, the failures
\* on file, the prose of the state memory.
KeptInTrust == KeepsACopy /\ Archive!FiledIsKept /\ Memory!ProseIsKept
FailuresAreFiled == Archive!FailuresAreFiled
LoadedByTheEnd == Updates!LoadedByTheEnd
SaysTheTruth == Memory!SaysTheTruth
MonthsAreDigested == Digests!MonthsAreDigested
=============================================================================
