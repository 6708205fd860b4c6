------------------------- MODULE MCKeychainSetup ----------------------------
(* KeychainSetup on the hosts a release meets. *)
EXTENDS KeychainSetup, TLC

CONSTANTS p1, p2

Alone == {p1}
Both == {p1, p2}
MCKinds == {"command", "machine", "doctor"}
CommandOnly == {"command"}

Host(system, home, u, up) ==
    [disk |-> [system |-> system, home |-> home], unit |-> u, up |-> up]
None == [m \in Modes |-> Down]
Daemon(mode, code, at) ==
    [None EXCEPT ![mode] = [code |-> code, at |-> at, grants |-> FALSE, socket |-> TRUE]]

\* Nothing installed; a system service of an older version, up or with a newer binary
\* at home; one that is current; a user-mode daemon.
MCInstallations ==
    {Host("none", "none", FALSE, None),
     Host("old", "none", TRUE, Daemon("system", "old", "system")),
     Host("old", "new", TRUE, None),
     Host("new", "none", TRUE, Daemon("system", "new", "system")),
     Host("none", "new", FALSE, Daemon("user", "new", "home"))}

\* What two processes meet after an upgrade; an old binary left behind.
RaceInstallations ==
    {Host("old", "none", TRUE, Daemon("system", "old", "system")),
     Host("old", "new", FALSE, Daemon("user", "new", "home"))}

Symmetric == Permutations(Both)
=============================================================================
