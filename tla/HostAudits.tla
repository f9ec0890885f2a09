------------------------------ MODULE HostAudits ------------------------------
(***************************************************************************)
(* The auditors of the host: the durability of git work, the health of     *)
(* containers, the source of units, the traces of agents.  They share no   *)
(* state, so each behaviour has one of them at work.                       *)
(***************************************************************************)
EXTENDS GitDurability

CONSTANTS
  Name, MaxId, ContainerFail,                       \* of ContainerHealth
  Service, Script, Execs, Source, MaxEdit, UnitFail, \* of UnitSource; Service are its units
  MaxRow, Floor, EpisodeFail                        \* of Episodes

ASSUME HostAssumption == MaxId \in Nat /\ \A u \in Service : Execs[u] \subseteq Script

VARIABLES
  part,
  box, timers, named, last, cRun, cSeen, cTold, cLost, cFails,
  repo, here, uRun, uSeen, uTold, uLost, edits, uFails,
  episode, task, bound, eRun, eSeen, eTold, eLost, eFails

ofContainers == <<box, timers, named, last, cRun, cSeen, cTold, cLost, cFails>>
ofUnits      == <<repo, here, uRun, uSeen, uTold, uLost, edits, uFails>>
ofEpisodes   == <<episode, task, bound, eRun, eSeen, eTold, eLost, eFails>>
all          == <<part, vars, ofContainers, ofUnits, ofEpisodes>>

Container == INSTANCE ContainerHealth WITH
  MaxFail <- ContainerFail,
  run <- cRun, seen <- cSeen, told <- cTold, lost <- cLost, fails <- cFails

Unit == INSTANCE UnitSource WITH
  Unit <- Service, MaxFail <- UnitFail,
  run <- uRun, seen <- uSeen, told <- uTold, lost <- uLost, fails <- uFails

Episode == INSTANCE Episodes WITH
  MaxFail <- EpisodeFail,
  row <- episode, run <- eRun, seen <- eSeen, told <- eTold, lost <- eLost, fails <- eFails

AuditsInit ==
  /\ part \in {"git", "containers", "units", "episodes"}
  /\ Init /\ Container!Init /\ Unit!Init /\ Episode!Init

OfGit(A)        == part = "git" /\ A /\ UNCHANGED <<part, ofContainers, ofUnits, ofEpisodes>>
OfContainers(A) == part = "containers" /\ A /\ UNCHANGED <<part, vars, ofUnits, ofEpisodes>>
OfUnits(A)      == part = "units" /\ A /\ UNCHANGED <<part, vars, ofContainers, ofEpisodes>>
OfEpisodes(A)   == part = "episodes" /\ A /\ UNCHANGED <<part, vars, ofContainers, ofUnits>>

AuditsNext ==
  \/ OfGit(Next) \/ OfContainers(Container!Next)
  \/ OfUnits(Unit!Next) \/ OfEpisodes(Episode!Next)

FairAudits ==
  /\ AuditsInit /\ [][AuditsNext]_all
  /\ WF_all(OfGit(Step)) /\ WF_all(OfGit(Cool(Recent)))
  /\ WF_all(OfContainers(Container!Step)) /\ WF_all(OfUnits(Unit!Step))
  /\ WF_all(OfEpisodes(Episode!Sweep)) /\ \A e \in 1..MaxRow : WF_all(OfEpisodes(Episode!Lapse(e)))

\* Three auditors, one latch.
TellsChanges == Container!TellsChanges /\ Unit!TellsChanges /\ Episode!TellsChanges
ContainerEndsTrue == Container!EndsTrue
UnitEndsTrue == Unit!EndsTrue
EveryTraceEnds == Episode!EveryTraceEnds
=============================================================================
