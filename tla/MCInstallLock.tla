--------------------------- MODULE MCInstallLock ---------------------------
(* Small instances of the install lock: two installer commands and one     *)
(* gateway registration run on its own.                                    *)
EXTENDS InstallLock, TLC

=============================================================================
