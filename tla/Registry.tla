------------------------------ MODULE Registry ------------------------------
(***************************************************************************)
(* The persistent record of a service instance and the operations on its   *)
(* cached copy: pkg/registry/registry.go and pkg/operation/operation.go.   *)
(*                                                                         *)
(* A registry entry is a Kubernetes Secret.  The broker reads it once into *)
(* a cached Entry, edits the cache, and writes the whole cache back with   *)
(* Commit.  The stored Secret and the cached Entry have the same shape, so *)
(* one record type serves for both.                                        *)
(*                                                                         *)
(* rv is the Secret's resourceVersion and uid its UID.  Both are the       *)
(* number of a write: the API server gives every write a new number, an    *)
(* object keeps the number of its creation as its identity, and 0 stands   *)
(* for an object that was never written.  The random operation UUID of     *)
(* operation.Start is likewise the number of the write that stored it.     *)
(* The keys "namespace" (a function of the stored context) and             *)
(* "instance-id" (the name of the Secret) are not repeated in the record,  *)
(* and neither are the dashboard URL and the user's keys, which no handler *)
(* of a service instance branches on.                                      *)
(***************************************************************************)
EXTENDS Naturals

CONSTANTS
    None,      \* no value: a key that is not set, a parameter not supplied
    Services,  \* service offering IDs
    Plans,     \* service plan IDs
    Docs,      \* JSON documents, as the bytes of a request hold them
    Compact    \* Compact[d]: document d as json.Marshal stores it

(* json.Marshal removes insignificant white space: doing it twice changes  *)
(* nothing more.                                                           *)
ASSUME CompactAssumption ==
    /\ Compact \in [Docs -> Docs]
    /\ \A d \in Docs : Compact[Compact[d]] = Compact[d]

ASSUME NoneAssumption == None \notin Services \cup Plans \cup Docs

Document == Docs \cup {None}

(* operation.Type, and the absence of the "operation" key. *)
OpType == {"provision", "update", "deprovision"}

(* The "operation-status" key: not set, empty (success) or an error.       *)
Status == {"unset", "ok", "error"}

Entry == [exists  : BOOLEAN,
          uid     : Nat,
          rv      : Nat,
          service : Services \cup {None},
          plan    : Plans \cup {None},
          context : Document,
          params  : Document,
          op      : OpType \cup {"none"},
          opid    : Nat,
          status  : Status]

(* registry.New when the Secret is not found: an empty, unsaved entry.     *)
Absent == [exists |-> FALSE, uid |-> 0, rv |-> 0,
           service |-> None, plan |-> None, context |-> None, params |-> None,
           op |-> "none", opid |-> 0, status |-> "unset"]

(* entry.Set of a document: the value goes through json.Marshal.  An       *)
(* absent document is stored as null and read back as absent.              *)
Marshal(d) == IF d = None THEN None ELSE Compact[d]

(* Mutants of CommitAccepted: an update that does not compare versions,    *)
(* and a create that overwrites.                                           *)
CommitAcceptedAnyVersion(stored, cached) == cached.exists => stored.exists
CommitAcceptedOverwrite(stored, cached) ==
    cached.exists => stored.exists /\ stored.rv = cached.rv

(* Entry.Commit reaches the API server: an Update is accepted only for the *)
(* version that was read, a Create only when nothing has the name.         *)
CommitAccepted(stored, cached) ==
    IF cached.exists THEN stored.exists /\ stored.rv = cached.rv
                     ELSE ~stored.exists

(* Mutant of Committed: an update keeps its version.                       *)
CommittedSameVersion(cached, n) ==
    [cached EXCEPT !.exists = TRUE,
                   !.rv     = IF cached.exists THEN cached.rv ELSE n,
                   !.uid    = IF cached.exists THEN cached.uid ELSE n]

(* What Commit stores, and what it caches from the API server's answer,    *)
(* when the write has number n.                                            *)
Committed(cached, n) ==
    [cached EXCEPT !.exists = TRUE,
                   !.rv     = n,
                   !.uid    = IF cached.exists THEN cached.uid ELSE n]

(* Mutant of StartRefused: Start does not look for a running operation.    *)
StartNeverRefused(e) == FALSE

(* operation.Start refuses an entry that has an operation before it writes *)
(* anything.  Complete and End have the opposite check, but are called     *)
(* only for entries that were seen to have one.                            *)
StartRefused(e) == e.op # "none"

Start(e, type, id) == [e EXCEPT !.op = type, !.opid = id]

(* Mutants of Complete: the error is lost, and the status is not set.      *)
CompleteDropsError(e, status) == [e EXCEPT !.status = "ok"]
CompleteSetsNothing(e, status) == e

Complete(e, status) == [e EXCEPT !.status = status]

(* Mutant of End: a key is blanked instead of removed.                     *)
EndBlanksOperation(e) == [e EXCEPT !.op = "", !.opid = 0, !.status = "unset"]

End(e) == [e EXCEPT !.op = "none", !.opid = 0, !.status = "unset"]
=============================================================================
