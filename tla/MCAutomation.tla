---------------------------- MODULE MCAutomation ----------------------------
(* An app that qualifies and a system app, which the exclude list matches;   *)
(* the daemon and one automation command beside it.                          *)
EXTENDS Automation

CONSTANTS app, system

\* The user marks the system app's line, which the installer has written.
TheUserLists == {list \in Lists : list[app] # "marked" /\ list[system] # "none"}

\* An installation of an old version, whose known packages are all of them, has
\* no auto_added.txt yet; one of the new version has both files as it keeps them.
MCInit == Init /\ (auto_added = None <=> known # installed \cap ThirdParty)
MCFairSpec == MCInit /\ [][Next]_vars /\ Fairness
=============================================================================
