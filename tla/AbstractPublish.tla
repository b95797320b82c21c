-------------------------- MODULE AbstractPublish --------------------------
(***************************************************************************)
(* What the publish transaction promises to whoever reads the installation *)
(* (the installed files and the install record that describes them): a     *)
(* publish replaces all its targets and their record entries in one step,  *)
(* or nothing.  While it is open the installation still counts as the one  *)
(* before it, because that is what the next command restores.              *)
(***************************************************************************)
CONSTANTS
  Target,     \* install locations
  Value,      \* what a location may hold
  Foreign,    \* what somebody else put there: of that nothing is promised
  Unreadable  \* an install record this installer cannot read

VARIABLES
  files,     \* the content of each location
  recorded,  \* the install record: the content recorded for each location
  open       \* a publish has begun and is neither done nor restored

absVars == <<files, recorded, open>>

AbsInit ==
  /\ files \in [Target -> Value]
  /\ recorded \in {files, Unreadable}
  /\ ~open

(* A publish that begins takes locations that somebody else changed as     *)
(* they are.                                                               *)
TakeIn ==
  /\ \E found \in [Target -> Value] :
       files' = [t \in Target |-> IF files[t] = Foreign THEN found[t] ELSE files[t]]
  /\ UNCHANGED recorded

AbsBegin == open' = TRUE /\ TakeIn

(* The targets T now hold c, and the record says so. *)
Commit(T, c) ==
  /\ open /\ open' = FALSE
  /\ files' = [t \in Target |-> IF t \in T /\ files[t] # Foreign THEN c ELSE files[t]]
  /\ recorded' = IF recorded = Unreadable THEN recorded
                 ELSE [t \in Target |-> IF t \in T THEN c ELSE recorded[t]]

Abort == open /\ open' = FALSE /\ UNCHANGED <<files, recorded>>

(* Somebody else changes a location, and the record does not notice. *)
Interfere(t) == files' = [files EXCEPT ![t] = Foreign] /\ UNCHANGED <<recorded, open>>

AbsNext ==
  \/ AbsBegin \/ (\E T \in SUBSET Target, c \in Value : Commit(T, c)) \/ Abort
  \/ \E t \in Target : Interfere(t)

AbsSpec == AbsInit /\ [][AbsNext]_absVars

=============================================================================
