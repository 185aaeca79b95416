---------------------------- MODULE SnapshotFile ----------------------------
(***************************************************************************)
(* What the recorder promises about forge.snapshot_path: the file holds    *)
(* what the operator left there until a recording that has something to    *)
(* replay takes its place at once.  No crash and no failure leaves it torn *)
(* or empty, and none brings an older file back.  Recorder implements it.  *)
(***************************************************************************)
CONSTANTS
  Given,      \* what the file may be before the first start
  Recordings  \* whole files with a section to replay

VARIABLE stored

FileInit == stored \in Given

Replace == stored' \in Recordings

FileSpec == FileInit /\ [][Replace]_stored
=============================================================================
