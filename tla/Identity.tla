------------------------------ MODULE Identity ------------------------------
(***************************************************************************)
(* The identity of a node (ursa/src/ursa/identity.rs): at start main loads *)
(* the key file, or makes a key and saves it, unless it is told to use a   *)
(* random identity.  save truncates, writes, syncs and then restricts the  *)
(* file in place; the process may be killed, panic, or lose power between  *)
(* any two of these.                                                       *)
(*                                                                         *)
(* A key pair is a value, and its PEM text is what load makes of it: the   *)
(* key pair itself, an error ("short": a PRIVATE KEY that is not 85 bytes  *)
(* long) or a panic ("torn": text that pem::parse refuses, or another      *)
(* tag).  The mode of the file is left out.                                *)
(***************************************************************************)
CONSTANTS Keys,    \* the key pairs that may be generated
          NoKey    \* no key pair

ASSUME KeysAssumption ==
  /\ NoKey \notin Keys
  /\ \A c \in {"absent", "short", "torn"} : c \notin Keys

Contents == Keys \cup {"absent", "short", "torn"}

VARIABLES
  pc,      \* where the process is in load_or_new; "down" if there is none
  id,      \* IdentityManager::identity of the process
  file,    \* the key file, as a process reads it
  disk,    \* the key file, as it is after a power loss
  used,    \* the key pairs generated so far
  kept,    \* the identity of the last run that used the file (history)
  fresh    \* whether this process made its key and saved it (history)

vars == <<pc, id, file, disk, used, kept, fresh>>

TypeOK ==
  /\ pc \in {"down", "load", "create", "write", "sync", "restrict", "up", "random"}
  /\ id \in Keys \cup {NoKey}
  /\ file \in Contents
  /\ disk \in Contents
  /\ used \in SUBSET Keys
  /\ kept \in Keys \cup {NoKey}
  /\ fresh \in BOOLEAN

Init ==
  /\ pc = "down"
  /\ id = NoKey
  /\ file = "absent"
  /\ disk = "absent"
  /\ used = {}
  /\ kept = NoKey
  /\ fresh = FALSE

-----------------------------------------------------------------------------
\* Keypair::generate_ed25519: no key pair is generated twice.
Generate ==
  \E k \in Keys \ used : id' = k /\ used' = used \cup {k}

\* The random identity is saved as well.
StartRandomSaved ==
  /\ pc = "down"
  /\ Generate
  /\ pc' = "create"
  /\ UNCHANGED <<file, disk, kept, fresh>>

\* main: the configured identity is "random"; nothing is read or saved.
StartRandom ==
  /\ pc = "down"
  /\ Generate
  /\ pc' = "random"
  /\ UNCHANGED <<file, disk, kept, fresh>>

\* main: any other identity is given to load_or_new.
Start ==
  /\ pc = "down"
  /\ pc' = "load"
  /\ UNCHANGED <<id, file, disk, used, kept, fresh>>

\* load returns the key pair.
LoadOk ==
  /\ pc = "load"
  /\ file \in Keys
  /\ id' = file
  /\ kept' = file
  /\ pc' = "up"
  /\ UNCHANGED <<file, disk, used, fresh>>

\* load_or_new calls new whatever load returned.
LoadIgnored ==
  /\ pc = "load"
  /\ Generate
  /\ pc' = "create"
  /\ UNCHANGED <<file, disk, kept, fresh>>

\* load returns an error, because there is no file or its key has another
\* length; load_or_new calls new.
LoadFails ==
  /\ pc = "load"
  /\ file \in {"absent", "short"}
  /\ Generate
  /\ pc' = "create"
  /\ UNCHANGED <<file, disk, kept, fresh>>

\* The file is there, but opening or reading it fails; load_or_new calls new
\* all the same, and the key in the file is given up.
ReadFails ==
  /\ pc = "load"
  /\ file # "absent"
  /\ Generate
  /\ kept' = NoKey
  /\ pc' = "create"
  /\ UNCHANGED <<file, disk, fresh>>

\* save, File::create: the file is truncated.
Truncate ==
  /\ pc = "create"
  /\ file' = "torn"
  /\ pc' = "write"
  /\ UNCHANGED <<id, disk, used, kept, fresh>>

\* save, write_all.
Write ==
  /\ pc = "write"
  /\ file' = id
  /\ pc' = "sync"
  /\ UNCHANGED <<id, disk, used, kept, fresh>>

\* The file is not synced.
SyncOmitted ==
  /\ pc = "sync"
  /\ pc' = "restrict"
  /\ UNCHANGED <<id, file, disk, used, kept, fresh>>

\* save, sync_all.
Sync ==
  /\ pc = "sync"
  /\ disk' = file
  /\ pc' = "restrict"
  /\ UNCHANGED <<id, file, used, kept, fresh>>

\* save, set_permissions; new returns the identity.
Restrict ==
  /\ pc = "restrict"
  /\ pc' = "up"
  /\ kept' = id
  /\ fresh' = TRUE
  /\ UNCHANGED <<id, file, disk, used>>

\* The process ends at any point: killed, interrupted, or by a panic, which is
\* what a failing step of save (`unwrap` in new) and a torn file cause.
Stop ==
  /\ pc # "down"
  /\ pc' = "down"
  /\ id' = NoKey
  /\ fresh' = FALSE
  /\ UNCHANGED <<file, disk, used, kept>>

\* Power is lost; of what was not synced the disk has nothing, a part, or all.
PowerLoss ==
  /\ pc' = "down"
  /\ id' = NoKey
  /\ fresh' = FALSE
  /\ disk' \in (IF file = disk THEN {disk} ELSE {disk, "torn", file})
  /\ file' = disk'
  /\ kept' = IF file = disk THEN kept ELSE NoKey
  /\ UNCHANGED used

\* The operator removes the file, or installs a key in another encoding.
Operate ==
  /\ pc = "down"
  /\ \E c \in {"absent", "short"} : file' = c /\ disk' = c
  /\ kept' = NoKey
  /\ UNCHANGED <<pc, id, used, fresh>>

Next ==
  \/ StartRandom \/ Start
  \/ LoadOk \/ LoadFails \/ ReadFails
  \/ Truncate \/ Write \/ Sync \/ Restrict
  \/ Stop \/ PowerLoss \/ Operate

Spec == Init /\ [][Next]_vars

-----------------------------------------------------------------------------
Saving == pc \in {"create", "write", "sync", "restrict"}

(***************************************************************************)
(* The inductive half of SameIdentity: from the moment a node has come up  *)
(* with an identity from the key file, that file holds it, through crashes *)
(* of this and later processes and runs with a random identity.            *)
(***************************************************************************)
KeptIsInFile ==
  /\ kept # NoKey => file = kept
  /\ pc = "up" => kept = id
  /\ Saving => kept = NoKey

(***************************************************************************)
(* A node that comes up with the identity of its key file has the one it   *)
(* had last time, however the runs in between ended, unless the operator   *)
(* changed the file, reading it failed, or power was lost before the file  *)
(* had ever been synced.                                                   *)
(***************************************************************************)
SameIdentity ==
  [][(pc # "up" /\ pc' = "up" /\ kept # NoKey) => id' = kept]_vars

(***************************************************************************)
(* A node that made its identity and announces it has it on disk: a power  *)
(* loss at any later time cannot take it away.  (A node that only loaded   *)
(* it may run with a file that a killed process had not synced.)           *)
(***************************************************************************)
MadeIsDurable == pc = "up" /\ fresh => disk = id

(***************************************************************************)
(* What makes the above inductive: save syncs what it has written, and     *)
(* restricts what it has synced; a process that loads has made no key.     *)
(***************************************************************************)
SavedInOrder ==
  /\ Saving => id \in Keys
  /\ pc \in {"sync", "restrict"} => file = id
  /\ pc = "restrict" => disk = id
  /\ fresh => pc = "up"

=============================================================================
