----------------------------- MODULE ArtifactLog -----------------------------
(***************************************************************************)
(* What a directory of artifacts promises: each file appears in it once    *)
(* and stays, what a job publishes is what is there at that moment, and a  *)
(* directory that is sealed does not change any more.                      *)
(***************************************************************************)
EXTENDS Naturals, Sequences

CONSTANTS
    Writers,    \* the jobs
    Files       \* the files a job may write

VARIABLES
    files,      \* what each job has written
    published,  \* the lists of files it has published, in order
    sealed      \* the jobs that have done all they will do

logVars == <<files, published, sealed>>

LogInit ==
    /\ files = [w \in Writers |-> {}]
    /\ published = [w \in Writers |-> <<>>]
    /\ sealed = {}

(* A job may be done with the same step. *)
MayBeDone(w) == sealed' \in {sealed, sealed \cup {w}}

WriteOne(w) ==
    /\ w \notin sealed
    /\ \E f \in Files \ files[w] : files' = [files EXCEPT ![w] = @ \cup {f}]
    /\ UNCHANGED published
    /\ MayBeDone(w)

Publish(w) ==
    /\ w \notin sealed
    /\ published' = [published EXCEPT ![w] = Append(@, files[w])]
    /\ UNCHANGED files
    /\ MayBeDone(w)

Stop(w) ==
    /\ w \notin sealed
    /\ sealed' = sealed \cup {w}
    /\ UNCHANGED <<files, published>>

LogNext == \E w \in Writers : WriteOne(w) \/ Publish(w) \/ Stop(w)

LogSpec == LogInit /\ [][LogNext]_logVars
=============================================================================
