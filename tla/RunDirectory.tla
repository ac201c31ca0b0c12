---------------------------- MODULE RunDirectory ----------------------------
(***************************************************************************)
(* Where a job puts its files (run_directory.create_run_directory): in a   *)
(* fresh directory of the outputs directory, named after the second the    *)
(* job started in and, if others started in that second too, a suffix.     *)
(* Jobs are commands of their own and runs of the host; they share nothing *)
(* but the file system, whose mkdir is atomic.                             *)
(***************************************************************************)
EXTENDS Naturals

CONSTANTS
    Jobs,       \* the jobs that may want a directory
    Seconds,    \* the UTC seconds a clock may show
    Attempts    \* bound: the names tried for one second (1000 in the code)

ASSUME AttemptsAssumption == Attempts \in Nat \ {0}
ASSUME SecondsAssumption == Seconds # {}

VARIABLES
    taken,      \* the names that exist in the outputs directory
    second,     \* the second each job read when it started
    suffix,     \* the suffix it tries, or owns
    search      \* how far it is

dirVars == <<taken, second, suffix, search>>

(* The suffix is left out of a name when it is 0 and has three digits      *)
(* otherwise: different pairs are different names.                         *)
Names == Seconds \X (0 .. Attempts - 1)
Name(j) == <<second[j], suffix[j]>>

Searches == {"idle", "seeking", "holding", "refused", "failed"}

(* Earlier jobs have left any directories.  What second is before a job    *)
(* has read the clock does not matter.                                     *)
DirInit ==
    /\ taken \in SUBSET Names
    /\ second = [j \in Jobs |-> CHOOSE s \in Seconds : TRUE]
    /\ suffix = [j \in Jobs |-> 0]
    /\ search = [j \in Jobs |-> "idle"]

(* The outputs directory is made if it is not there, and the clock is read *)
(* once.  It may show any second: two jobs may read the same one, and a    *)
(* clock may be set back.                                                  *)
StartSearch(j) ==
    /\ search[j] = "idle"
    /\ \E s \in Seconds : second' = [second EXCEPT ![j] = s]
    /\ search' = [search EXCEPT ![j] = "seeking"]
    /\ UNCHANGED <<taken, suffix>>

(* Variant: a directory that exists is taken over (mkdir with exist_ok).   *)
MakeOrReuseDirectory(j) ==
    /\ search[j] = "seeking"
    /\ taken' = taken \cup {Name(j)}
    /\ search' = [search EXCEPT ![j] = "holding"]
    /\ UNCHANGED <<second, suffix>>

(* mkdir succeeds. *)
MakeDirectory(j) ==
    /\ search[j] = "seeking"
    /\ Name(j) \notin taken
    /\ taken' = taken \cup {Name(j)}
    /\ search' = [search EXCEPT ![j] = "holding"]
    /\ UNCHANGED <<second, suffix>>

(* Variant: the suffix starts again after the last one. *)
TryNextSuffixForEver(j) ==
    /\ search[j] = "seeking"
    /\ Name(j) \in taken
    /\ suffix' = [suffix EXCEPT ![j] = (@ + 1) % Attempts]
    /\ UNCHANGED <<taken, second, search>>

(* mkdir raises FileExistsError, and there are names left. *)
TryNextSuffix(j) ==
    /\ search[j] = "seeking"
    /\ Name(j) \in taken
    /\ suffix[j] + 1 < Attempts
    /\ suffix' = [suffix EXCEPT ![j] = @ + 1]
    /\ UNCHANGED <<taken, second, search>>

(* Variant: the last name is never tried. *)
RefuseTooEarly(j) ==
    /\ search[j] = "seeking"
    /\ suffix[j] + 1 = Attempts
    /\ search' = [search EXCEPT ![j] = "refused"]
    /\ UNCHANGED <<taken, second, suffix>>

(* The last name exists too: no unique directory for this second.          *)
Refuse(j) ==
    /\ search[j] = "seeking"
    /\ Name(j) \in taken
    /\ suffix[j] + 1 = Attempts
    /\ search' = [search EXCEPT ![j] = "refused"]
    /\ UNCHANGED <<taken, second, suffix>>

(* mkdir raises anything else, for the outputs directory or for a name:    *)
(* the error is not caught here.                                           *)
SearchRaises(j) ==
    /\ search[j] = "seeking"
    /\ search' = [search EXCEPT ![j] = "failed"]
    /\ UNCHANGED <<taken, second, suffix>>

SearchStep(j) ==
    MakeDirectory(j) \/ TryNextSuffix(j) \/ Refuse(j) \/ SearchRaises(j)

DirNext == \E j \in Jobs : StartSearch(j) \/ SearchStep(j)

DirSpec == DirInit /\ [][DirNext]_dirVars

-----------------------------------------------------------------------------
(* Properties *)

DirTypeOK ==
    /\ taken \subseteq Names
    /\ second \in [Jobs -> Seconds]
    /\ suffix \in [Jobs -> 0 .. Attempts - 1]
    /\ search \in [Jobs -> Searches]

(* No two jobs own one directory, however their searches interleave, and a *)
(* directory that is owned exists.                                         *)
DirectoriesAreNotShared ==
    /\ \A i, j \in Jobs :
          search[i] = "holding" /\ search[j] = "holding" /\ Name(i) = Name(j)
          => i = j
    /\ \A j \in Jobs : search[j] = "holding" => Name(j) \in taken

(* A job is refused a directory only if every name of its second is taken, *)
(* and a name with a suffix is used only if all the smaller ones are:      *)
(* names are handed out without gaps.                                      *)
RefusedOnlyIfFull ==
    \A j \in Jobs :
        /\ \A k \in 0 .. suffix[j] - 1 : <<second[j], k>> \in taken
        /\ search[j] = "refused" =>
              \A k \in 0 .. Attempts - 1 : <<second[j], k>> \in taken
=============================================================================
