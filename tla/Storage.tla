------------------------------ MODULE Storage ------------------------------
(***************************************************************************)
(* The private objects of one workspace (bucket "vault", prefix the        *)
(* workspace's id; packages/db/src/storage.ts) as the components that      *)
(* store and remove them see it.  A path is written once: who finds an     *)
(* object there leaves it.  A write that was given up at its deadline may  *)
(* have been sent already and land later.                                  *)
(***************************************************************************)
CONSTANT Paths

VARIABLES
  workspace,   \* "live", or "gone" once its row is deleted
  objects,     \* paths at which an object is stored
  late         \* paths a write that was given up may still reach

storageVars == <<workspace, objects, late>>

StorageTypeOK ==
  /\ workspace \in {"live", "gone"}
  /\ objects \in SUBSET Paths /\ late \in SUBSET Paths

StorageInit == workspace = "live" /\ objects = {} /\ late = {}

Store(path) == objects' = objects \cup {path} /\ UNCHANGED late

\* The write failed or was aborted: nothing was sent, or it may arrive yet.
GiveUpStoring(path) == objects' = objects /\ late' \in {late, late \cup {path}}

\* It arrives, or never will.
Land(path) ==
  /\ path \in late /\ late' = late \ {path}
  /\ objects' \in {objects, objects \cup {path}}
  /\ UNCHANGED workspace

Remove(path) == objects' = objects \ {path} /\ UNCHANGED late
=============================================================================
