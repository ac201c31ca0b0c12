------------------------- MODULE RunArtifactsProofs -------------------------
(***************************************************************************)
(* No two jobs own one directory, and none is refused one while a name is  *)
(* left; what a job leaves in its directory, however it ends, is a prefix  *)
(* of what it set out to write; and with the threads that outlive a        *)
(* cancelled run a directory is a log.  For any number of jobs, requests,  *)
(* clocks, attempts and groups of files.                                   *)
(***************************************************************************)
EXTENDS RunArtifacts, SequenceTheorems, TLAPS

-----------------------------------------------------------------------------
(* The search for a directory. *)

(* A job starts its search at the first suffix.                            *)
SearchStartsAtZero == \A j \in Jobs : search[j] = "idle" => suffix[j] = 0

DirInv == DirTypeOK /\ DirectoriesAreNotShared /\ RefusedOnlyIfFull /\ SearchStartsAtZero

DirStep(j) == StartSearch(j) \/ SearchStep(j)

(* Whatever directories earlier jobs have left, no job owns or has passed  *)
(* over one before it has read the clock.                                  *)
LEMMA DirInvInitially == DirInit => DirInv
  <1> SUFFICES ASSUME DirInit PROVE DirInv
    OBVIOUS
  <1>1. DirTypeOK
    <2>1. (CHOOSE s \in Seconds : TRUE) \in Seconds
      BY SecondsAssumption
    <2> QED
      BY <2>1, AttemptsAssumption DEF DirInit, DirTypeOK, Names, Searches
  <1>2. DirectoriesAreNotShared
    BY DEF DirInit, DirectoriesAreNotShared
  <1>3. RefusedOnlyIfFull
    <2>1. \A j \in Jobs : suffix[j] = 0 /\ search[j] = "idle"
      BY DEF DirInit
    <2>2. \A k \in 0 .. 0 - 1 : FALSE
      OBVIOUS
    <2>3. ASSUME NEW j \in Jobs
          PROVE  /\ \A k \in 0 .. suffix[j] - 1 : <<second[j], k>> \in taken
                 /\ search[j] # "refused"
      BY <2>1, <2>2
    <2> QED
      BY <2>3, Zenon DEF RefusedOnlyIfFull
  <1>4. SearchStartsAtZero
    BY DEF DirInit, SearchStartsAtZero
  <1> QED
    BY <1>1, <1>2, <1>3, <1>4 DEF DirInv

(* A step of the search keeps the state well typed.                        *)
LEMMA DirStepTyped ==
    ASSUME DirTypeOK, NEW j \in Jobs, DirStep(j)
    PROVE  DirTypeOK'
  <1>1. CASE StartSearch(j)
    BY <1>1 DEF StartSearch, DirTypeOK, Searches
  <1>2. CASE MakeDirectory(j)
    <2>1. Name(j) \in Names
      BY DEF DirTypeOK, Name, Names
    <2> QED
      BY <1>2, <2>1 DEF MakeDirectory, DirTypeOK, Searches
  <1>3. CASE TryNextSuffix(j)
    BY <1>3, AttemptsAssumption DEF TryNextSuffix, DirTypeOK
  <1>4. CASE Refuse(j)
    BY <1>4 DEF Refuse, DirTypeOK, Searches
  <1>5. CASE SearchRaises(j)
    BY <1>5 DEF SearchRaises, DirTypeOK, Searches
  <1> QED
    BY <1>1, <1>2, <1>3, <1>4, <1>5 DEF SearchStep, DirStep

(* Only mkdir makes an owner, and it does so only where no directory was.  *)
LEMMA DirStepNotShared ==
    ASSUME DirTypeOK, DirectoriesAreNotShared, NEW j \in Jobs, DirStep(j)
    PROVE  DirectoriesAreNotShared'
  <1>1. CASE MakeDirectory(j)
    <2>1. \A i \in Jobs : Name(i)' = Name(i)
      BY <1>1 DEF MakeDirectory, Name
    <2>2. \A i \in Jobs : search'[i] = "holding" => i = j \/ search[i] = "holding"
      BY <1>1 DEF MakeDirectory, DirTypeOK
    <2>3. Name(j) \notin taken /\ taken' = taken \cup {Name(j)}
      BY <1>1 DEF MakeDirectory
    <2>4. \A i \in Jobs : search[i] = "holding" => Name(i) # Name(j)
      BY <2>3 DEF DirectoriesAreNotShared
    <2> QED
      BY <2>1, <2>2, <2>3, <2>4 DEF DirectoriesAreNotShared
  <1>2. CASE ~MakeDirectory(j)
    <2>1. \A i \in Jobs : search'[i] = "holding" =>
             search[i] = "holding" /\ Name(i)' = Name(i)
      <3>1. CASE StartSearch(j)
        BY <3>1 DEF StartSearch, DirTypeOK, Name
      <3>2. CASE TryNextSuffix(j)
        BY <3>2 DEF TryNextSuffix, DirTypeOK, Name
      <3>3. CASE Refuse(j)
        BY <3>3 DEF Refuse, DirTypeOK, Name
      <3>4. CASE SearchRaises(j)
        BY <3>4 DEF SearchRaises, DirTypeOK, Name
      <3> QED
        BY <1>2, <3>1, <3>2, <3>3, <3>4 DEF SearchStep, DirStep
    <2>2. taken' = taken
      BY <1>2 DEF StartSearch, SearchStep, TryNextSuffix, Refuse, SearchRaises, DirStep
    <2> QED
      BY <2>1, <2>2 DEF DirectoriesAreNotShared
  <1> QED
    BY <1>1, <1>2

(* No step removes a directory.                                            *)
LEMMA TakenGrows ==
    ASSUME NEW j \in Jobs, DirStep(j)
    PROVE  taken \subseteq taken'
  BY DEF DirStep, SearchStep, StartSearch, MakeDirectory, TryNextSuffix, Refuse,
         SearchRaises

(* A job passes a suffix over only when its name is taken, and gives up    *)
(* only after the last one.                                                *)
LEMMA DirStepRefused ==
    ASSUME DirTypeOK, RefusedOnlyIfFull, SearchStartsAtZero,
           NEW j \in Jobs, DirStep(j)
    PROVE  RefusedOnlyIfFull'
  <1>1. SUFFICES ASSUME NEW i \in Jobs
                 PROVE  /\ \A k \in 0 .. suffix'[i] - 1 : <<second'[i], k>> \in taken'
                        /\ search'[i] = "refused" =>
                              \A k \in 0 .. Attempts - 1 : <<second'[i], k>> \in taken'
    BY DEF RefusedOnlyIfFull
  <1>2. /\ \A k \in 0 .. suffix[i] - 1 : <<second[i], k>> \in taken
        /\ search[i] = "refused" =>
              \A k \in 0 .. Attempts - 1 : <<second[i], k>> \in taken
    BY DEF RefusedOnlyIfFull
  <1>3. taken \subseteq taken'
    BY TakenGrows
  <1>4. suffix[i] \in Nat /\ second[i] \in Seconds /\ Attempts \in Nat
    BY AttemptsAssumption DEF DirTypeOK
  <1>5. CASE StartSearch(j)
    <2>1. CASE i = j
      <3>1. suffix'[i] = 0 /\ search'[i] = "seeking"
        BY <1>5, <2>1 DEF StartSearch, DirTypeOK, SearchStartsAtZero
      <3> QED
        BY <3>1
    <2>2. CASE i # j
      <3>1. second'[i] = second[i] /\ suffix'[i] = suffix[i] /\ search'[i] = search[i]
        BY <1>5, <2>2 DEF StartSearch, DirTypeOK
      <3> QED
        BY <3>1, <1>2, <1>3
    <2> QED
      BY <2>1, <2>2
  <1>6. CASE MakeDirectory(j)
    <2>1. second' = second /\ suffix' = suffix
      BY <1>6 DEF MakeDirectory
    <2>2. search'[i] = "refused" => search[i] = "refused"
      BY <1>6 DEF MakeDirectory, DirTypeOK
    <2> QED
      BY <2>1, <2>2, <1>2, <1>3
  <1>7. CASE TryNextSuffix(j)
    <2>1. second' = second /\ search' = search
      BY <1>7 DEF TryNextSuffix
    <2>2. CASE i = j
      <3>1. suffix'[i] = suffix[i] + 1
        BY <1>7, <2>2 DEF TryNextSuffix, DirTypeOK
      <3>2. <<second[i], suffix[i]>> \in taken
        BY <1>7, <2>2 DEF TryNextSuffix, Name
      <3>3. \A k \in 0 .. suffix'[i] - 1 : k \in 0 .. suffix[i] - 1 \/ k = suffix[i]
        BY <3>1, <1>4
      <3> QED
        BY <2>1, <3>2, <3>3, <1>2, <1>3
    <2>3. CASE i # j
      <3>1. suffix'[i] = suffix[i]
        BY <1>7, <2>3 DEF TryNextSuffix, DirTypeOK
      <3> QED
        BY <2>1, <3>1, <1>2, <1>3
    <2> QED
      BY <2>2, <2>3
  <1>8. CASE Refuse(j)
    <2>1. second' = second /\ suffix' = suffix
      BY <1>8 DEF Refuse
    <2>2. CASE i = j
      <3>1. suffix[i] = Attempts - 1 /\ <<second[i], suffix[i]>> \in taken
        BY <1>8, <1>4, <2>2 DEF Refuse, Name
      <3>2. \A k \in 0 .. Attempts - 1 : k \in 0 .. suffix[i] - 1 \/ k = suffix[i]
        BY <3>1, <1>4
      <3> QED
        BY <2>1, <3>1, <3>2, <1>2, <1>3
    <2>3. CASE i # j
      <3>1. search'[i] = search[i]
        BY <1>8, <2>3 DEF Refuse, DirTypeOK
      <3> QED
        BY <2>1, <3>1, <1>2, <1>3
    <2> QED
      BY <2>2, <2>3
  <1>9. CASE SearchRaises(j)
    <2>1. second' = second /\ suffix' = suffix
      BY <1>9 DEF SearchRaises
    <2>2. search'[i] = "refused" => search[i] = "refused"
      BY <1>9 DEF SearchRaises, DirTypeOK
    <2> QED
      BY <2>1, <2>2, <1>2, <1>3
  <1> QED
    BY <1>5, <1>6, <1>7, <1>8, <1>9 DEF SearchStep, DirStep

(* Only a job that seeks moves its suffix, and none goes back to idle.     *)
LEMMA DirStepZero ==
    ASSUME DirTypeOK, SearchStartsAtZero, NEW j \in Jobs, DirStep(j)
    PROVE  SearchStartsAtZero'
  <1>1. CASE StartSearch(j)
    BY <1>1 DEF StartSearch, DirTypeOK, SearchStartsAtZero
  <1>2. CASE MakeDirectory(j)
    BY <1>2 DEF MakeDirectory, DirTypeOK, SearchStartsAtZero
  <1>3. CASE TryNextSuffix(j)
    BY <1>3 DEF TryNextSuffix, DirTypeOK, SearchStartsAtZero
  <1>4. CASE Refuse(j)
    BY <1>4 DEF Refuse, DirTypeOK, SearchStartsAtZero
  <1>5. CASE SearchRaises(j)
    BY <1>5 DEF SearchRaises, DirTypeOK, SearchStartsAtZero
  <1> QED
    BY <1>1, <1>2, <1>3, <1>4, <1>5 DEF SearchStep, DirStep

(* The invariant is inductive.                                             *)
LEMMA DirInvInductive == DirInv /\ [DirNext]_dirVars => DirInv'
  <1> SUFFICES ASSUME DirInv, [DirNext]_dirVars PROVE DirInv'
    OBVIOUS
  <1> USE DEF DirInv
  <1>1. CASE DirNext
    <2>1. PICK j \in Jobs : DirStep(j)
      BY <1>1 DEF DirNext, DirStep
    <2> QED
      BY <2>1, DirStepTyped, DirStepNotShared, DirStepRefused, DirStepZero
  <1>2. CASE UNCHANGED dirVars
    <2>1. DirTypeOK' /\ RefusedOnlyIfFull' /\ SearchStartsAtZero'
      BY <1>2 DEF dirVars, DirTypeOK, RefusedOnlyIfFull, SearchStartsAtZero
    <2>2. DirectoriesAreNotShared'
      BY <1>2 DEF dirVars, DirectoriesAreNotShared, Name
    <2> QED
      BY <2>1, <2>2
  <1> QED
    BY <1>1, <1>2

(* Every behaviour of the search keeps the invariant.                      *)
LEMMA DirInvAlways == DirSpec => []DirInv
  BY DirInvInitially, DirInvInductive, PTL DEF DirSpec

(* The directories and the searches are well typed: in particular no job   *)
(* ever tries more names than it may.                                      *)
THEOREM DirTypeCorrect == DirSpec => []DirTypeOK
  <1>1. DirInv => DirTypeOK
    BY DEF DirInv
  <1> QED
    BY <1>1, DirInvAlways, PTL

(* No two jobs own one directory, and an owned directory exists, however   *)
(* many jobs start in one second and however their mkdirs interleave.      *)
THEOREM DirectoriesNeverShared == DirSpec => []DirectoriesAreNotShared
  <1>1. DirInv => DirectoriesAreNotShared
    BY DEF DirInv
  <1> QED
    BY <1>1, DirInvAlways, PTL

(* Whoever is refused a directory has found every name of its second       *)
(* taken, whatever the clocks show and however many attempts there are.    *)
THEOREM RefusedOnlyWhenFull == DirSpec => []RefusedOnlyIfFull
  <1>1. DirInv => RefusedOnlyIfFull
    BY DEF DirInv
  <1> QED
    BY <1>1, DirInvAlways, PTL

-----------------------------------------------------------------------------
(* The jobs of RunArtifacts search for their directories as RunDirectory   *)
(* says, whatever else they do, so what is proved of the search holds of   *)
(* them.                                                                   *)

(* What a job does outside its search leaves the directories alone.        *)
LEMMA WorkLeavesDirectories ==
    ASSUME NEW j \in Jobs,
           \/ Prepared(j) \/ PrepareRaises(j)
           \/ Detected(j) \/ DetectRaises(j) \/ RunSyncRaises(j)
           \/ GraphEnds(j) \/ GraphRaises(j)
           \/ StartWriting(j) \/ OpenFile(j) \/ FillFile(j) \/ WriteRaises(j)
           \/ ListArtifacts(j) \/ Cancel(j)
    PROVE  UNCHANGED dirVars
  BY DEF Prepared, PrepareRaises, Detected, DetectRaises, RunSyncRaises, GraphEnds,
         GraphRaises, StartWriting, OpenFile, FillFile, WriteRaises, ListArtifacts,
         Cancel

(* What it does inside its search is a step of the search.                 *)
LEMMA SearchIsASearch ==
    ASSUME NEW j \in Jobs,
           Start(j) \/ TakesDirectory(j) \/ LooksFurther(j) \/ GetsNoDirectory(j)
    PROVE  DirNext
  BY DEF Start, TakesDirectory, LooksFurther, GetsNoDirectory, DirNext, SearchStep

(* Every step of the jobs is a step of the search or leaves it alone.      *)
LEMMA StepSearches == [ArtifactsNext]_vars => [DirNext]_dirVars
  <1> SUFFICES ASSUME [ArtifactsNext]_vars PROVE [DirNext]_dirVars
    OBVIOUS
  <1>1. CASE UNCHANGED vars
    BY <1>1 DEF vars
  <1>2. CASE ArtifactsNext
    <2>1. PICK j \in Jobs : Start(j) \/ JobStep(j) \/ Cancel(j)
      BY <1>2 DEF ArtifactsNext
    <2> QED
      BY <2>1, WorkLeavesDirectories, SearchIsASearch DEF JobStep
  <1> QED
    BY <1>1, <1>2

(* The jobs implement the search for directories: none of their other      *)
(* steps makes, removes or changes a directory.                            *)
THEOREM JobsImplementSearch == ArtifactsSpec => DirSpec
  <1>1. ArtifactsInit => DirInit
    BY DEF ArtifactsInit
  <1> QED
    BY <1>1, StepSearches, PTL DEF ArtifactsSpec, DirSpec

(* No two jobs, commands of the shell or runs of the host, ever share a    *)
(* directory, however their work interleaves and however it ends.          *)
THEOREM JobsNeverShare == ArtifactsSpec => []DirectoriesAreNotShared
  BY JobsImplementSearch, DirectoriesNeverShared, PTL

(* A job that ends without a directory has found every name of its second  *)
(* taken.                                                                  *)
THEOREM JobsRefusedOnlyWhenFull == ArtifactsSpec => []RefusedOnlyIfFull
  BY JobsImplementSearch, RefusedOnlyWhenFull, PTL

-----------------------------------------------------------------------------
(* The scripts and the files their operations write. *)

WriteOps == {"write_fixed", "write_contract", "write_loop", "write_prompt_loop"}
Ops == WriteOps \cup {"prepare", "detect", "graph", "finish", "list"}

NamesOf(op) ==
    CASE op = "write_fixed" -> {"classification", "response", "trace", "state_trace",
                                "checker", "checker_comparison", "explanation"}
      [] op = "write_contract" -> {"prompt_contract"}
      [] op = "write_loop" -> {"loop_trace", "explanation"}
      [] op = "write_prompt_loop" -> {"generated", "loop_trace", "explanation"}
      [] OTHER -> {}

UnitAt(r, p) == IF r.command = "run" THEN (p + 2) \div 4 ELSE 1
FilesAt(r, p) == {UnitAt(r, p)} \X NamesOf(Script(r)[p])

(* A group of files, as an operation may write it: some of its names, each *)
(* once.                                                                   *)
GroupOf(names, g) ==
    /\ g \in Seq(names)
    /\ g # <<>>
    /\ \A i, k \in DOMAIN g : g[i] = g[k] => i = k

(* A file that is not there yet may be added, or not.                      *)
LEMMA GroupGrows ==
    ASSUME NEW names, NEW a, a \notin names, NEW g, GroupOf(names, g),
           NEW condition \in BOOLEAN
    PROVE  GroupOf(names \cup {a}, g \o When(condition, a))
  <1> DEFINE more == names \cup {a}
             h == g \o When(condition, a)
  <1>1. g \in Seq(names) /\ Len(g) \in Nat /\ DOMAIN g = 1 .. Len(g)
    BY DEF GroupOf
  <1>2. CASE condition = FALSE
    <2>1. h = g
      BY <1>1, <1>2 DEF When
    <2>2. g \in Seq(more)
      BY <1>1
    <2> QED
      BY <2>1, <2>2 DEF GroupOf
  <1>3. CASE condition = TRUE
    <2>1. h = g \o <<a>> /\ <<a>> \in Seq(more) /\ Len(<<a>>) = 1 /\ g \in Seq(more)
      BY <1>1, <1>3 DEF When
    <2>2. /\ h \in Seq(more)
          /\ Len(h) = Len(g) + 1
          /\ \A i \in 1 .. Len(g) : h[i] = g[i]
          /\ h[Len(g) + 1] = a
      BY <1>1, <2>1, ConcatProperties
    <2>3. \A i \in 1 .. Len(g) : g[i] \in names
      BY <1>1
    <2>4. DOMAIN h = 1 .. Len(g) + 1 /\ h # <<>>
      BY <1>1, <2>2
    <2> HIDE DEF h
    <2>5. \A i, k \in DOMAIN h : h[i] = h[k] => i = k
      <3> SUFFICES ASSUME NEW i \in 1 .. Len(g) + 1, NEW k \in 1 .. Len(g) + 1,
                          h[i] = h[k]
                   PROVE  i = k
        BY <2>4
      <3>1. i \in 1 .. Len(g) \/ i = Len(g) + 1
        BY <1>1
      <3>2. k \in 1 .. Len(g) \/ k = Len(g) + 1
        BY <1>1
      <3>3. \A m \in 1 .. Len(g) : h[m] = g[m] /\ h[m] # a
        BY <2>2, <2>3
      <3> QED
        BY <1>1, <2>2, <3>1, <3>2, <3>3 DEF GroupOf
    <2> QED
      BY <2>2, <2>4, <2>5 DEF GroupOf, h
  <1> QED
    BY <1>2, <1>3

(* A group of some names is a group of more.                               *)
LEMMA GroupOfMore ==
    ASSUME NEW names, NEW more, names \subseteq more, NEW g, GroupOf(names, g)
    PROVE  GroupOf(more, g)
  BY DEF GroupOf

(* A single file. *)
LEMMA GroupOfOne ==
    ASSUME NEW a
    PROVE  GroupOf({a}, <<a>>)
  BY DEF GroupOf

(* Four different files. *)
LEMMA GroupOfFour ==
    GroupOf({"classification", "response", "trace", "state_trace"},
            <<"classification", "response", "trace", "state_trace">>)
  <1> DEFINE g == <<"classification", "response", "trace", "state_trace">>
  <1>1. g \in Seq({"classification", "response", "trace", "state_trace"}) /\ g # <<>>
    OBVIOUS
  <1>2. /\ DOMAIN g = 1 .. 4
        /\ g[1] = "classification" /\ g[2] = "response"
        /\ g[3] = "trace" /\ g[4] = "state_trace"
    OBVIOUS
  <1>3. \A i \in 1 .. 4 : i = 1 \/ i = 2 \/ i = 3 \/ i = 4
    OBVIOUS
  <1> HIDE DEF g
  <1>4. \A i, k \in DOMAIN g : g[i] = g[k] => i = k
    BY <1>2, <1>3
  <1> QED
    BY <1>1, <1>4 DEF GroupOf, g

(* Every operation that writes, writes some of its names, each once.       *)
LEMMA EveryGroupIsAGroup ==
    ASSUME NEW op, NEW g \in Groups(op)
    PROVE  op \in WriteOps /\ GroupOf(NamesOf(op), g)
  <1>1. op \in WriteOps
    BY DEF Groups, WriteOps
  <1>2. CASE op = "write_fixed"
    <2>1. g \in OutOfScopeGroups \cup InScopeGroups
      BY <1>2, FixedGroupsAssumption DEF Groups
    <2>2. CASE g \in OutOfScopeGroups
      <3>1. PICK safe \in BOOLEAN :
               g = <<"classification">> \o When(safe, "response")
        BY <2>2 DEF OutOfScopeGroups
      <3>2. GroupOf({"classification"} \cup {"response"}, g)
        BY <3>1, GroupOfOne, GroupGrows
      <3> QED
        BY <1>1, <1>2, <3>2, GroupOfMore DEF NamesOf
    <2>3. CASE g \in InScopeGroups
      <3> DEFINE Files(checked, compared, explained) ==
                    <<"classification", "response", "trace", "state_trace">>
                        \o When(checked, "checker")
                        \o When(checked /\ compared, "checker_comparison")
                        \o When(checked /\ explained, "explanation")
      <3>0. InScopeGroups = {Files(c, d, e) : c \in BOOLEAN, d \in BOOLEAN,
                                              e \in BOOLEAN}
        BY DEF InScopeGroups
      <3> HIDE DEF Files
      <3>1. PICK checked \in BOOLEAN, compared \in BOOLEAN, explained \in BOOLEAN :
               g = Files(checked, compared, explained)
        BY <2>3, <3>0
      <3> DEFINE first == {"classification", "response", "trace", "state_trace"}
                 h == <<"classification", "response", "trace", "state_trace">>
      <3>2. GroupOf(first, h)
        BY GroupOfFour
      <3> HIDE DEF h
      <3>3. GroupOf(first \cup {"checker"}, h \o When(checked, "checker"))
        BY <3>2, GroupGrows
      <3>4. (checked /\ compared) \in BOOLEAN /\ (checked /\ explained) \in BOOLEAN
        OBVIOUS
      <3>5. GroupOf((first \cup {"checker"}) \cup {"checker_comparison"},
                    h \o When(checked, "checker")
                      \o When(checked /\ compared, "checker_comparison"))
        BY <3>3, <3>4, GroupGrows
      <3>6. GroupOf(((first \cup {"checker"}) \cup {"checker_comparison"})
                       \cup {"explanation"},
                    h \o When(checked, "checker")
                      \o When(checked /\ compared, "checker_comparison")
                      \o When(checked /\ explained, "explanation"))
        BY <3>4, <3>5, GroupGrows
      <3>7. GroupOf(((first \cup {"checker"}) \cup {"checker_comparison"})
                       \cup {"explanation"}, g)
        BY <3>1, <3>6 DEF h, Files
      <3> QED
        BY <1>1, <1>2, <3>7, GroupOfMore DEF NamesOf
    <2> QED
      BY <2>1, <2>2, <2>3
  <1>3. CASE op = "write_contract"
    <2>1. g = <<"prompt_contract">> /\ NamesOf(op) = {"prompt_contract"}
      BY <1>3 DEF Groups, ContractGroups, NamesOf
    <2> QED
      BY <1>1, <2>1, GroupOfOne
  <1>4. CASE op = "write_loop"
    <2>1. PICK e \in BOOLEAN : g = <<"loop_trace">> \o When(e, "explanation")
      BY <1>4 DEF Groups, LoopGroups
    <2>2. GroupOf({"loop_trace"} \cup {"explanation"}, g)
      BY <2>1, GroupOfOne, GroupGrows
    <2> QED
      BY <1>1, <1>4, <2>2, GroupOfMore DEF NamesOf
  <1>5. CASE op = "write_prompt_loop"
    <2> DEFINE Files(generated, e) ==
                  When(generated, "generated") \o <<"loop_trace">>
                      \o When(generated /\ e, "explanation")
    <2>0. Groups(op) = {Files(generated, e) : generated \in BOOLEAN, e \in BOOLEAN}
      BY <1>5 DEF Groups, PromptLoopGroups
    <2> HIDE DEF Files
    <2>1. PICK generated \in BOOLEAN, e \in BOOLEAN : g = Files(generated, e)
      BY <2>0
    <2>2. GroupOf({"generated", "loop_trace"},
                  When(generated, "generated") \o <<"loop_trace">>)
      <3>1. CASE generated = TRUE
        <4>1. When(generated, "generated") \o <<"loop_trace">> =
                 <<"generated">> \o When(TRUE, "loop_trace")
          BY <3>1 DEF When
        <4>2. GroupOf({"generated"} \cup {"loop_trace"},
                      <<"generated">> \o When(TRUE, "loop_trace"))
          BY GroupOfOne, GroupGrows
        <4> QED
          BY <4>1, <4>2, GroupOfMore
      <3>2. CASE generated = FALSE
        <4>1. When(generated, "generated") \o <<"loop_trace">> = <<"loop_trace">>
          BY <3>2, ConcatEmptySeq DEF When
        <4> QED
          BY <4>1, GroupOfOne, GroupOfMore
      <3> QED
        BY <3>1, <3>2
    <2>3. (generated /\ e) \in BOOLEAN
      OBVIOUS
    <2>4. GroupOf({"generated", "loop_trace"} \cup {"explanation"}, g)
      BY <2>1, <2>2, <2>3, GroupGrows DEF Files
    <2> QED
      BY <1>1, <1>5, <2>4, GroupOfMore DEF NamesOf
  <1> QED
    BY <1>1, <1>2, <1>3, <1>4, <1>5 DEF WriteOps

(* The entries of a concatenation. *)
LEMMA ConcatEntries ==
    ASSUME NEW S, NEW s \in Seq(S), NEW t \in Seq(S)
    PROVE  /\ s \o t \in Seq(S)
           /\ Len(s \o t) = Len(s) + Len(t)
           /\ \A i \in 1 .. Len(s) : (s \o t)[i] = s[i]
           /\ \A i \in 1 .. Len(t) : (s \o t)[Len(s) + i] = t[i]
  <1>1. Len(s) \in Nat /\ Len(t) \in Nat
    OBVIOUS
  <1>2. /\ s \o t \in Seq(S)
        /\ Len(s \o t) = Len(s) + Len(t)
        /\ \A i \in 1 .. Len(s) + Len(t) :
              (s \o t)[i] = IF i <= Len(s) THEN s[i] ELSE t[i - Len(s)]
    BY ConcatProperties
  <1>3. \A i \in 1 .. Len(s) : (s \o t)[i] = s[i]
    <2>1. \A i \in 1 .. Len(s) : i \in 1 .. Len(s) + Len(t) /\ i <= Len(s)
      BY <1>1
    <2> QED
      BY <1>2, <2>1
  <1>4. ASSUME NEW i \in 1 .. Len(t)
        PROVE  (s \o t)[Len(s) + i] = t[i]
    <2>1. /\ Len(s) + i \in 1 .. Len(s) + Len(t)
          /\ ~(Len(s) + i <= Len(s))
          /\ (Len(s) + i) - Len(s) = i
      BY <1>1
    <2> QED
      BY <1>2, <2>1
  <1> QED
    BY <1>2, <1>3, <1>4

(* The four operations of a fixed scenario. *)
LEMMA FixedScriptEntries ==
    /\ FixedScript \in Seq(Ops)
    /\ Len(FixedScript) = 4
    /\ FixedScript[1] = "graph" /\ FixedScript[2] = "write_fixed"
    /\ FixedScript[3] = "finish" /\ FixedScript[4] = "list"
    /\ \A k \in 1 .. 4 : FixedScript[k] \in Ops
  <1>1. /\ FixedScript \in Seq(Ops)
        /\ Len(FixedScript) = 4
        /\ FixedScript[1] = "graph" /\ FixedScript[2] = "write_fixed"
        /\ FixedScript[3] = "finish" /\ FixedScript[4] = "list"
    BY DEF FixedScript, Ops, WriteOps
  <1>2. \A k \in 1 .. 4 : k = 1 \/ k = 2 \/ k = 3 \/ k = 4
    OBVIOUS
  <1>3. "graph" \in Ops /\ "write_fixed" \in Ops /\ "finish" \in Ops /\ "list" \in Ops
    BY DEF Ops, WriteOps
  <1> QED
    BY <1>1, <1>2, <1>3

(* A batch prepares, goes through the four operations of each scenario and *)
(* lists once more.                                                        *)
LEMMA RunScriptEntries ==
    ASSUME NEW n \in Nat
    PROVE  /\ RunScript(n) \in Seq(Ops)
           /\ Len(RunScript(n)) = 4 * n + 2
           /\ RunScript(n)[1] = "prepare"
           /\ RunScript(n)[4 * n + 2] = "list"
           /\ \A i \in 1 .. 4 * n :
                 RunScript(n)[1 + i] = FixedScript[((i - 1) % 4) + 1]
  <1> DEFINE first == <<"prepare">>
             last == <<"list">>
             m == 4 * n
             middle == [i \in 1 .. m |-> FixedScript[((i - 1) % 4) + 1]]
  <1>1. first \in Seq(Ops) /\ Len(first) = 1 /\ first[1] = "prepare"
    BY DEF Ops
  <1>2. last \in Seq(Ops) /\ Len(last) = 1 /\ last[1] = "list"
    BY DEF Ops
  <1>m. m \in Nat
    OBVIOUS
  <1>5. RunScript(n) = (first \o middle) \o last
    BY DEF RunScript
  <1>e. (4 * n + 2 = m + 2) /\ (4 * n = m)
    OBVIOUS
  <1> HIDE DEF first, last, m
  <1>3. middle \in Seq(Ops) /\ Len(middle) = m
    <2>1. ASSUME NEW i \in 1 .. m
          PROVE  FixedScript[((i - 1) % 4) + 1] \in Ops
      <3>1. ((i - 1) % 4) + 1 \in 1 .. 4
        BY <1>m
      <3> QED
        BY <3>1, FixedScriptEntries
    <2>3. middle \in [1 .. m -> Ops]
      BY <2>1
    <2> HIDE DEF middle
    <2> QED
      BY <1>m, <2>3
  <1>4. \A i \in 1 .. m : middle[i] = FixedScript[((i - 1) % 4) + 1]
    OBVIOUS
  <1> HIDE DEF middle
  <1> DEFINE most == first \o middle
  <1>6. /\ most \in Seq(Ops)
        /\ Len(most) = 1 + m
        /\ \A i \in 1 .. 1 : most[i] = first[i]
        /\ \A i \in 1 .. m : most[1 + i] = middle[i]
    <2>1. /\ most \in Seq(Ops)
          /\ Len(most) = Len(first) + Len(middle)
          /\ \A i \in 1 .. Len(first) : most[i] = first[i]
          /\ \A i \in 1 .. Len(middle) : most[Len(first) + i] = middle[i]
      <3>1. first \in Seq(Ops) /\ middle \in Seq(Ops)
        BY <1>1, <1>3
      <3> QED
        BY <3>1, ConcatEntries
    <2> HIDE DEF most
    <2> QED
      BY <1>1, <1>3, <2>1
  <1>7. RunScript(n) = most \o last
    BY <1>5
  <1> HIDE DEF most
  <1>8. /\ RunScript(n) \in Seq(Ops)
        /\ Len(RunScript(n)) = (1 + m) + 1
        /\ \A i \in 1 .. 1 + m : RunScript(n)[i] = most[i]
        /\ \A i \in 1 .. 1 : RunScript(n)[(1 + m) + i] = last[i]
    <2>1. /\ most \o last \in Seq(Ops)
          /\ Len(most \o last) = Len(most) + Len(last)
          /\ \A i \in 1 .. Len(most) : (most \o last)[i] = most[i]
          /\ \A i \in 1 .. Len(last) : (most \o last)[Len(most) + i] = last[i]
      <3>1. most \in Seq(Ops) /\ last \in Seq(Ops)
        BY <1>2, <1>6
      <3> QED
        BY <3>1, ConcatEntries
    <2> QED
      BY <1>2, <1>6, <1>7, <2>1
  <1>9. Len(RunScript(n)) = m + 2 /\ RunScript(n)[m + 2] = "list"
    <2>1. (1 + m) + 1 = m + 2 /\ 1 \in 1 .. 1
      BY <1>m
    <2> QED
      BY <1>2, <1>8, <2>1
  <1>10. RunScript(n)[1] = "prepare"
    <2>1. 1 \in 1 .. 1 + m /\ 1 \in 1 .. 1
      BY <1>m
    <2> QED
      BY <1>1, <1>6, <1>8, <2>1
  <1>11. ASSUME NEW i \in 1 .. m
         PROVE  RunScript(n)[1 + i] = FixedScript[((i - 1) % 4) + 1]
    <2>1. 1 + i \in 1 .. 1 + m
      BY <1>m
    <2> QED
      BY <1>4, <1>6, <1>8, <2>1
  <1> QED
    BY <1>e, <1>8, <1>9, <1>10, <1>11

(* What the proofs need to know of a script: what an operation writes, no  *)
(* other operation of the script writes; something follows a preparation;  *)
(* and a script that lists ends with a list.                               *)
GoodScript(r) ==
    /\ Script(r) \in Seq(Ops)
    /\ Script(r) # <<>>
    /\ \A p \in DOMAIN Script(r) :
          /\ FilesAt(r, p) \subseteq FileNames
          /\ Script(r)[p] = "prepare" => p + 1 \in DOMAIN Script(r)
          /\ Script(r)[p] = "list" => Script(r)[Len(Script(r))] = "list"
    /\ \A p, q \in DOMAIN Script(r) :
          p # q => FilesAt(r, p) \cap FilesAt(r, q) = {}

(* The names of an operation are names of artifacts.                       *)
LEMMA NamesAreArtifacts == \A op : NamesOf(op) \subseteq Artifacts
  BY DEF NamesOf, Artifacts

(* Different operations write different files, except the two that a       *)
(* script never has together.                                              *)
LEMMA NamesApart ==
    /\ \A op : op \notin WriteOps => NamesOf(op) = {}
    /\ NamesOf("write_contract") \cap NamesOf("write_prompt_loop") = {}
  BY DEF NamesOf, WriteOps

(* The script of a batch is good: its scenarios have different units.      *)
LEMMA RunScriptIsGood ==
    ASSUME NEW r \in Request, r.command = "run"
    PROVE  GoodScript(r)
  <1> DEFINE n == r.scenarios
             s == Script(r)
  <1>1. n \in Nat /\ n =< MaxScenarios /\ s = RunScript(n) /\ MaxScenarios \in Nat
    BY MaxScenariosAssumption DEF Request, Script
  <1>2. /\ s \in Seq(Ops)
        /\ Len(s) = 4 * n + 2
        /\ DOMAIN s = 1 .. 4 * n + 2
        /\ s[1] = "prepare"
        /\ s[4 * n + 2] = "list"
        /\ \A p \in 2 .. 4 * n + 1 : s[p] = FixedScript[((p - 2) % 4) + 1]
    <2>1. /\ s \in Seq(Ops)
          /\ Len(s) = 4 * n + 2
          /\ s[1] = "prepare"
          /\ s[4 * n + 2] = "list"
          /\ \A i \in 1 .. 4 * n : s[1 + i] = FixedScript[((i - 1) % 4) + 1]
      BY <1>1, RunScriptEntries
    <2> HIDE DEF n, s
    <2>2. ASSUME NEW p \in 2 .. 4 * n + 1
          PROVE  s[p] = FixedScript[((p - 2) % 4) + 1]
      <3>1. /\ p - 1 \in 1 .. 4 * n
            /\ 1 + (p - 1) = p
            /\ (p - 1) - 1 = p - 2
        BY <1>1
      <3> QED
        BY <2>1, <3>1
    <2>3. DOMAIN s = 1 .. 4 * n + 2
      BY <2>1
    <2> QED
      BY <2>1, <2>2, <2>3
  <1> HIDE DEF n, s
  <1>3. ASSUME NEW p \in DOMAIN s
        PROVE  /\ s[p] = "prepare" => p = 1
               /\ s[p] \in WriteOps => p % 4 = 3 /\ p \in 2 .. 4 * n + 1
    <2>1. CASE p = 1
      BY <1>2, <2>1 DEF WriteOps
    <2>2. CASE p = 4 * n + 2
      BY <1>2, <2>2 DEF WriteOps
    <2>3. CASE p \in 2 .. 4 * n + 1
      <3>1. (p - 2) % 4 \in 0 .. 3
        BY <1>1, <2>3
      <3>2. s[p] = FixedScript[((p - 2) % 4) + 1]
        BY <1>2, <2>3
      <3>3. (p - 2) % 4 = 0 => s[p] = "graph"
        BY <3>2, FixedScriptEntries
      <3>4. (p - 2) % 4 = 1 => s[p] = "write_fixed"
        BY <3>2, FixedScriptEntries
      <3>5. (p - 2) % 4 = 2 => s[p] = "finish"
        BY <3>2, FixedScriptEntries
      <3>6. (p - 2) % 4 = 3 => s[p] = "list"
        BY <3>2, FixedScriptEntries
      <3>7. (p - 2) % 4 = 1 => p % 4 = 3
        BY <1>1, <2>3
      <3> QED
        BY <2>3, <3>1, <3>3, <3>4, <3>5, <3>6, <3>7 DEF WriteOps
    <2> QED
      BY <1>1, <1>2, <2>1, <2>2, <2>3
  <1>4. \A p \in DOMAIN s : FilesAt(r, p) # {} => s[p] \in WriteOps
    BY NamesApart DEF FilesAt, s
  <1>5. \A p \in DOMAIN s : UnitAt(r, p) = (p + 2) \div 4
    BY DEF UnitAt
  <1>6. ASSUME NEW p \in DOMAIN s
        PROVE  FilesAt(r, p) \subseteq FileNames
    <2>1. CASE s[p] \in WriteOps
      <3>1. p \in 2 .. 4 * n + 1 /\ p % 4 = 3
        BY <1>3, <2>1
      <3>2. (p + 2) \div 4 \in 1 .. MaxScenarios + 1
        BY <1>1, <3>1
      <3> QED
        BY <1>5, <3>2, NamesAreArtifacts DEF FilesAt, FileNames
    <2>2. CASE s[p] \notin WriteOps
      BY <1>4, <2>2
    <2> QED
      BY <2>1, <2>2
  <1>7. ASSUME NEW p \in DOMAIN s, NEW q \in DOMAIN s, p # q
        PROVE  FilesAt(r, p) \cap FilesAt(r, q) = {}
    <2> SUFFICES ASSUME s[p] \in WriteOps, s[q] \in WriteOps
                 PROVE  UnitAt(r, p) # UnitAt(r, q)
      BY <1>4 DEF FilesAt
    <2>1. p % 4 = 3 /\ q % 4 = 3 /\ p \in Nat /\ q \in Nat
      BY <1>1, <1>2, <1>3
    <2>2. (p + 2) \div 4 # (q + 2) \div 4
      BY <1>7, <2>1
    <2> QED
      BY <1>5, <2>2
  <1>8. s # <<>> /\ s[Len(s)] = "list"
    BY <1>1, <1>2
  <1>9. \A p \in DOMAIN s : s[p] = "prepare" => p + 1 \in DOMAIN s
    BY <1>1, <1>2, <1>3
  <1> QED
    BY <1>2, <1>6, <1>7, <1>8, <1>9 DEF GoodScript, s

(* The other scripts are good, entry by entry.                             *)
LEMMA ScriptIsGood ==
    ASSUME NEW r \in Request
    PROVE  GoodScript(r)
  <1>1. r.command \in Commands
    BY DEF Request
  <1>2. \A p : UnitAt(r, p) \in 1 .. MaxScenarios + 1 \/ r.command = "run"
    BY MaxScenariosAssumption DEF UnitAt
  <1>3. ASSUME r.command # "run"
        PROVE  \A p : FilesAt(r, p) \subseteq FileNames
    BY <1>2, <1>3, NamesAreArtifacts DEF FilesAt, FileNames
  <1>4. CASE r.command = "run"
    BY <1>4, RunScriptIsGood
  <1>5. CASE r.command = "run-loop"
    <2>1. Script(r) = <<"prepare", "graph", "write_loop">>
      BY <1>5 DEF Script, RunLoopScript
    <2> QED
      BY <1>3, <1>5, <2>1, NamesApart DEF GoodScript, FilesAt, Ops, WriteOps
  <1>6. CASE r.command = "detect-contract"
    <2>1. Script(r) = <<"prepare", "detect", "write_contract">>
      BY <1>6 DEF Script, DetectContractScript
    <2> QED
      BY <1>3, <1>6, <2>1, NamesApart DEF GoodScript, FilesAt, Ops, WriteOps
  <1>7. CASE r.command = "agui-fixed"
    <2>1. Script(r) = <<"graph", "write_fixed", "finish", "list">>
      BY <1>7 DEF Script, FixedScript
    <2> QED
      BY <1>3, <1>7, <2>1, NamesApart DEF GoodScript, FilesAt, Ops, WriteOps
  <1>8. CASE r.command = "agui-prompt-loop"
    <2>1. Script(r) = <<"detect", "write_contract", "graph",
                        "write_prompt_loop", "list">>
      BY <1>8 DEF Script, PromptLoopScript
    <2> QED
      BY <1>3, <1>8, <2>1, NamesApart DEF GoodScript, FilesAt, Ops, WriteOps
  <1>9. CASE r.command = "run-prompt-loop"
    <2>1. /\ Script(r) \in Seq(Ops) /\ Len(Script(r)) = 6
          /\ Script(r)[1] = "prepare" /\ Script(r)[2] = "detect"
          /\ Script(r)[3] = "write_contract" /\ Script(r)[4] = "graph"
          /\ Script(r)[5] = "write_prompt_loop" /\ Script(r)[6] = "list"
      <3>1. Script(r) = <<"prepare">> \o PromptLoopScript
        BY <1>9 DEF Script
      <3> DEFINE first == <<"prepare">>
                 rest == PromptLoopScript
      <3>2. first \in Seq(Ops) /\ Len(first) = 1 /\ first[1] = "prepare"
        BY DEF Ops
      <3>3. /\ rest \in Seq(Ops) /\ Len(rest) = 5
            /\ rest[1] = "detect" /\ rest[2] = "write_contract"
            /\ rest[3] = "graph" /\ rest[4] = "write_prompt_loop"
            /\ rest[5] = "list"
        BY DEF PromptLoopScript, Ops, WriteOps
      <3> HIDE DEF first, rest
      <3>4. /\ first \o rest \in Seq(Ops)
            /\ Len(first \o rest) = 1 + 5
            /\ \A i \in 1 .. 1 : (first \o rest)[i] = first[i]
            /\ \A i \in 1 .. 5 : (first \o rest)[1 + i] = rest[i]
        <4>1. /\ first \o rest \in Seq(Ops)
              /\ Len(first \o rest) = Len(first) + Len(rest)
              /\ \A i \in 1 .. Len(first) : (first \o rest)[i] = first[i]
              /\ \A i \in 1 .. Len(rest) : (first \o rest)[Len(first) + i] = rest[i]
          <5>1. first \in Seq(Ops) /\ rest \in Seq(Ops)
            BY <3>2, <3>3
          <5> QED
            BY <5>1, ConcatEntries
        <4> QED
          BY <3>2, <3>3, <4>1
      <3>5. Script(r) = first \o rest
        BY <3>1 DEF first, rest
      <3>6. /\ Script(r)[1] = first[1] /\ Script(r)[1 + 1] = rest[1]
            /\ Script(r)[1 + 2] = rest[2] /\ Script(r)[1 + 3] = rest[3]
            /\ Script(r)[1 + 4] = rest[4] /\ Script(r)[1 + 5] = rest[5]
        BY <3>4, <3>5
      <3> QED
        BY <3>2, <3>3, <3>4, <3>5, <3>6
    <2>2. DOMAIN Script(r) = 1 .. 6
      BY <2>1
    <2> QED
      BY <1>3, <1>9, <2>1, <2>2, NamesApart DEF GoodScript, FilesAt, WriteOps
  <1> QED
    BY <1>1, <1>4, <1>5, <1>6, <1>7, <1>8, <1>9 DEF Commands

-----------------------------------------------------------------------------
(* What is in a directory, given what its job set out to write.            *)

(* The first k of the files p, as the job j leaves them. *)
WholeUpTo(p, j, k) == {Entry(p[i], j, TRUE) : i \in 1 .. k}

(* The job is about to write t, the end of p, and has begun the first of t *)
(* or not.                                                                 *)
InTheMiddle(p, t, b, c, j) ==
    /\ Len(t) <= Len(p)
    /\ \A i \in 1 .. Len(t) : t[i] = p[(Len(p) - Len(t)) + i]
    /\ c = WholeUpTo(p, j, Len(p) - Len(t))
              \cup (IF b THEN {Entry(Head(t), j, FALSE)} ELSE {})

(* It has given up, perhaps in the middle of a file. *)
Abandoned(p, c, j) ==
    \E k \in 0 .. Len(p) :
        \/ c = WholeUpTo(p, j, k)
        \/ k > 0 /\ c = WholeUpTo(p, j, k - 1) \cup {Entry(p[k], j, FALSE)}

(* What opening a file and filling it make of a directory. *)
Opened(c, f, j) == {e \in c : e.file # f} \cup {Entry(f, j, FALSE)}
Filled(c, f, j) == {e \in c : e.file # f} \cup {Entry(f, j, TRUE)}

NoTwice(p) == \A i, k \in DOMAIN p : p[i] = p[k] => i = k
FilesOf(c) == {e.file : e \in c}
SameFiles(c, d) == FilesOf(c) = FilesOf(d)
UpTo(p, k) == {p[i] : i \in 1 .. k}

(* The files of the first k are the first k files. *)
LEMMA FilesOfWhole ==
    ASSUME NEW p, NEW j, NEW k
    PROVE  FilesOf(WholeUpTo(p, j, k)) = UpTo(p, k)
  <1>1. \A i : Entry(p[i], j, TRUE).file = p[i]
    BY DEF Entry
  <1>2. FilesOf(WholeUpTo(p, j, k)) = {Entry(p[i], j, TRUE).file : i \in 1 .. k}
    BY DEF FilesOf, WholeUpTo
  <1> QED
    BY <1>1, <1>2 DEF UpTo

(* A file that is begun is one more file. *)
LEMMA FilesOfOneMore ==
    ASSUME NEW c, NEW f, NEW j
    PROVE  FilesOf(c \cup {Entry(f, j, FALSE)}) = FilesOf(c) \cup {f}
  <1>1. Entry(f, j, FALSE).file = f
    BY DEF Entry
  <1> DEFINE new == Entry(f, j, FALSE)
  <1> HIDE DEF new
  <1>2. {e.file : e \in c \cup {new}} = {e.file : e \in c} \cup {new.file}
    OBVIOUS
  <1> QED
    BY <1>1, <1>2 DEF FilesOf, new

(* The first k files are the same in a longer plan. *)
LEMMA WholeOfMore ==
    ASSUME NEW p, NEW q, NEW j, NEW k, \A i \in 1 .. k : p[i] = q[i]
    PROVE  WholeUpTo(p, j, k) = WholeUpTo(q, j, k) /\ UpTo(p, k) = UpTo(q, k)
  BY DEF WholeUpTo, UpTo

(* One more file. *)
LEMMA WholeGrows ==
    ASSUME NEW p, NEW j, NEW k \in Nat
    PROVE  /\ WholeUpTo(p, j, k + 1) = WholeUpTo(p, j, k) \cup {Entry(p[k + 1], j, TRUE)}
           /\ UpTo(p, k + 1) = UpTo(p, k) \cup {p[k + 1]}
  <1>1. \A i : i \in 1 .. k + 1 <=> i \in 1 .. k \/ i = k + 1
    OBVIOUS
  <1> QED
    BY <1>1 DEF WholeUpTo, UpTo

(* Nothing was set out to write and nothing is there. *)
LEMMA NothingYet ==
    ASSUME NEW j
    PROVE  InTheMiddle(<<>>, <<>>, FALSE, {}, j)
  BY DEF InTheMiddle, WholeUpTo

(* Where the writer is in its plan. *)
LEMMA WhereItIs ==
    ASSUME NEW S, NEW p \in Seq(S), NEW t \in Seq(S), NEW b, NEW c, NEW j,
           InTheMiddle(p, t, b, c, j), t # <<>>
    PROVE  /\ Len(p) - Len(t) \in Nat
           /\ (Len(p) - Len(t)) + 1 \in 1 .. Len(p)
           /\ Head(t) = p[(Len(p) - Len(t)) + 1]
           /\ Tail(t) \in Seq(S)
           /\ Len(Tail(t)) = Len(t) - 1
           /\ Len(p) - Len(Tail(t)) = (Len(p) - Len(t)) + 1
  <1>1. Len(p) \in Nat /\ Len(t) \in Nat /\ Len(t) > 0 /\ Len(t) <= Len(p)
    BY DEF InTheMiddle
  <1>2. Head(t) = t[1] /\ Tail(t) \in Seq(S) /\ Len(Tail(t)) = Len(t) - 1
    OBVIOUS
  <1>3. 1 \in 1 .. Len(t)
    BY <1>1
  <1>4. t[1] = p[(Len(p) - Len(t)) + 1]
    BY <1>3 DEF InTheMiddle
  <1> QED
    BY <1>1, <1>2, <1>4

(* A file that is opened was not there. *)
LEMMA Opening ==
    ASSUME NEW S, NEW p \in Seq(S), NEW t \in Seq(S), NEW c, NEW j,
           InTheMiddle(p, t, FALSE, c, j), t # <<>>, NoTwice(p)
    PROVE  /\ InTheMiddle(p, t, TRUE, Opened(c, Head(t), j), j)
           /\ Head(t) \notin FilesOf(c)
           /\ FilesOf(Opened(c, Head(t), j)) = FilesOf(c) \cup {Head(t)}
  <1> DEFINE k == Len(p) - Len(t)
             h == Head(t)
  <1>1. k \in Nat /\ k + 1 \in 1 .. Len(p) /\ h = p[k + 1]
    BY WhereItIs
  <1>2. c = WholeUpTo(p, j, k)
    BY DEF InTheMiddle
  <1> HIDE DEF k, h
  <1>3. \A i \in 1 .. k : i \in DOMAIN p /\ k + 1 \in DOMAIN p /\ i # k + 1
    BY <1>1
  <1>4. \A i \in 1 .. k : p[i] # h
    BY <1>1, <1>3 DEF NoTwice
  <1>5. \A e \in c : e.file # h
    BY <1>2, <1>4 DEF WholeUpTo, Entry
  <1>6. Opened(c, h, j) = c \cup {Entry(h, j, FALSE)}
    BY <1>5 DEF Opened
  <1>7. h \notin FilesOf(c)
    BY <1>5 DEF FilesOf
  <1>8. FilesOf(c \cup {Entry(h, j, FALSE)}) = FilesOf(c) \cup {h}
    BY FilesOfOneMore
  <1>9. InTheMiddle(p, t, TRUE, c \cup {Entry(h, j, FALSE)}, j)
    BY <1>2 DEF InTheMiddle, k, h
  <1> QED
    BY <1>6, <1>7, <1>8, <1>9 DEF h

(* A file that is filled was begun, and the writer goes on after it. *)
LEMMA Filling ==
    ASSUME NEW S, NEW p \in Seq(S), NEW t \in Seq(S), NEW c, NEW j,
           InTheMiddle(p, t, TRUE, c, j), t # <<>>, NoTwice(p)
    PROVE  /\ InTheMiddle(p, Tail(t), FALSE, Filled(c, Head(t), j), j)
           /\ SameFiles(Filled(c, Head(t), j), c)
  <1> DEFINE k == Len(p) - Len(t)
             h == Head(t)
  <1>1. /\ k \in Nat /\ k + 1 \in 1 .. Len(p) /\ h = p[k + 1]
        /\ Tail(t) \in Seq(S) /\ Len(Tail(t)) = Len(t) - 1
        /\ Len(p) - Len(Tail(t)) = k + 1
    BY WhereItIs
  <1>2. c = WholeUpTo(p, j, k) \cup {Entry(h, j, FALSE)}
    BY DEF InTheMiddle
  <1>a. Len(t) \in Nat /\ Len(t) <= Len(p) /\ Len(t) > 0
        /\ \A i \in 1 .. Len(t) : t[i] = p[k + i]
    BY DEF InTheMiddle
  <1>b. \A i \in 1 .. Len(Tail(t)) : Tail(t)[i] = t[i + 1]
    OBVIOUS
  <1> HIDE DEF k, h
  <1>3. \A i \in 1 .. k : i \in DOMAIN p /\ k + 1 \in DOMAIN p /\ i # k + 1
    BY <1>1
  <1>4. \A i \in 1 .. k : p[i] # h
    BY <1>1, <1>3 DEF NoTwice
  <1>5. \A e \in WholeUpTo(p, j, k) : e.file # h
    BY <1>4 DEF WholeUpTo, Entry
  <1>6. Entry(h, j, FALSE).file = h
    BY DEF Entry
  <1>7. {e \in c : e.file # h} = WholeUpTo(p, j, k)
    BY <1>2, <1>5, <1>6
  <1>8. Filled(c, h, j) = WholeUpTo(p, j, k + 1)
    <2>1. Filled(c, h, j) = WholeUpTo(p, j, k) \cup {Entry(h, j, TRUE)}
      BY <1>7 DEF Filled
    <2>2. WholeUpTo(p, j, k + 1) = WholeUpTo(p, j, k) \cup {Entry(p[k + 1], j, TRUE)}
      BY <1>1, WholeGrows
    <2> QED
      BY <1>1, <2>1, <2>2
  <1>9. FilesOf(c) = UpTo(p, k) \cup {h}
    <2>1. FilesOf(c) = FilesOf(WholeUpTo(p, j, k)) \cup {h}
      BY <1>2, FilesOfOneMore
    <2> QED
      BY <2>1, FilesOfWhole
  <1>10. FilesOf(Filled(c, h, j)) = FilesOf(c)
    <2>1. FilesOf(WholeUpTo(p, j, k + 1)) = UpTo(p, k + 1)
      BY FilesOfWhole
    <2>2. UpTo(p, k + 1) = UpTo(p, k) \cup {p[k + 1]}
      BY <1>1, WholeGrows
    <2> QED
      BY <1>1, <1>8, <1>9, <2>1, <2>2
  <1>11. ASSUME NEW i \in 1 .. Len(Tail(t))
         PROVE  Tail(t)[i] = p[(k + 1) + i]
    <2>1. i + 1 \in 1 .. Len(t) /\ k + (i + 1) = (k + 1) + i
      BY <1>1, <1>a
    <2> QED
      BY <1>a, <1>b, <2>1
  <1>12. Len(Tail(t)) <= Len(p)
    BY <1>1, <1>a
  <1>13. InTheMiddle(p, Tail(t), FALSE, WholeUpTo(p, j, k + 1), j)
    BY <1>1, <1>11, <1>12 DEF InTheMiddle
  <1> QED
    BY <1>8, <1>10, <1>13 DEF h, SameFiles

(* A writer between two groups takes up another. *)
LEMMA TakingUp ==
    ASSUME NEW S, NEW p \in Seq(S), NEW g \in Seq(S), NEW c, NEW j,
           InTheMiddle(p, <<>>, FALSE, c, j)
    PROVE  InTheMiddle(p \o g, g, FALSE, c, j)
  <1>1. /\ Len(p \o g) = Len(p) + Len(g)
        /\ \A i \in 1 .. Len(p) : (p \o g)[i] = p[i]
        /\ \A i \in 1 .. Len(g) : (p \o g)[Len(p) + i] = g[i]
    BY ConcatEntries
  <1>2. Len(p) \in Nat /\ Len(g) \in Nat
    OBVIOUS
  <1>3. Len(p \o g) - Len(g) = Len(p) /\ Len(g) <= Len(p \o g)
    BY <1>1, <1>2
  <1>4. c = WholeUpTo(p, j, Len(p))
    BY <1>2 DEF InTheMiddle
  <1>5. WholeUpTo(p, j, Len(p)) = WholeUpTo(p \o g, j, Len(p))
    <2>1. \A i \in 1 .. Len(p) : p[i] = (p \o g)[i]
      BY <1>1
    <2> DEFINE q == p \o g
               n == Len(p)
    <2>2. \A i \in 1 .. n : p[i] = q[i]
      BY <2>1
    <2> HIDE DEF q, n
    <2>3. WholeUpTo(p, j, n) = WholeUpTo(q, j, n)
      BY <2>2, WholeOfMore
    <2> QED
      BY <2>3 DEF q, n
  <1> QED
    BY <1>1, <1>3, <1>4, <1>5 DEF InTheMiddle

(* A writer between two groups has left all it set out to write. *)
LEMMA AllThere ==
    ASSUME NEW S, NEW p \in Seq(S), NEW c, NEW j,
           InTheMiddle(p, <<>>, FALSE, c, j)
    PROVE  /\ FilesOf(c) = UpTo(p, Len(p))
           /\ \A e \in c : e.whole
           /\ \A e \in c : e.by = j
  <1>1. Len(p) \in Nat /\ Len(<<>>) = 0
    OBVIOUS
  <1>2. c = WholeUpTo(p, j, Len(p))
    BY <1>1 DEF InTheMiddle
  <1>3. \A e \in WholeUpTo(p, j, Len(p)) : e.whole /\ e.by = j
    BY DEF WholeUpTo, Entry
  <1>4. FilesOf(c) = UpTo(p, Len(p))
    BY <1>2, FilesOfWhole
  <1> QED
    BY <1>2, <1>3, <1>4

(* Wherever a writer gives up, it has left a beginning of its plan. *)
LEMMA GivingUp ==
    ASSUME NEW S, NEW p \in Seq(S), NEW t \in Seq(S), NEW b \in BOOLEAN, NEW c, NEW j,
           InTheMiddle(p, t, b, c, j), b => t # <<>>
    PROVE  Abandoned(p, c, j)
  <1> DEFINE k == Len(p) - Len(t)
  <1>1. k \in 0 .. Len(p) /\ Len(p) \in Nat
    BY DEF InTheMiddle
  <1>2. CASE b = FALSE
    <2>1. c = WholeUpTo(p, j, k)
      BY <1>2 DEF InTheMiddle
    <2> QED
      BY <1>1, <2>1 DEF Abandoned
  <1>3. CASE b = TRUE
    <2>1. k \in Nat /\ k + 1 \in 1 .. Len(p) /\ Head(t) = p[k + 1]
      BY <1>3, WhereItIs
    <2>2. c = WholeUpTo(p, j, k) \cup {Entry(p[k + 1], j, FALSE)}
      BY <1>3, <2>1 DEF InTheMiddle
    <2> HIDE DEF k
    <2>3. k + 1 \in 0 .. Len(p) /\ k + 1 > 0 /\ (k + 1) - 1 = k
      BY <1>1, <2>1
    <2> QED
      BY <2>2, <2>3 DEF Abandoned
  <1> QED
    BY <1>2, <1>3

(* What is left then: the names of a beginning, all whole but the last,    *)
(* and all its own.                                                        *)
LEMMA LeftBehind ==
    ASSUME NEW S, NEW p \in Seq(S), NEW c, NEW j, Abandoned(p, c, j)
    PROVE  /\ \E k \in 0 .. Len(p) :
                 /\ FilesOf(c) = UpTo(p, k)
                 /\ \A e \in c : e.whole \/ e.file = p[k]
           /\ \A e \in c : e.by = j
  <1>1. PICK k \in 0 .. Len(p) :
           \/ c = WholeUpTo(p, j, k)
           \/ k > 0 /\ c = WholeUpTo(p, j, k - 1) \cup {Entry(p[k], j, FALSE)}
    BY DEF Abandoned
  <1>2. CASE c = WholeUpTo(p, j, k)
    <2>1. FilesOf(c) = UpTo(p, k)
      BY <1>2, FilesOfWhole
    <2>2. \A e \in c : e.whole /\ e.by = j
      BY <1>2 DEF WholeUpTo, Entry
    <2> QED
      BY <2>1, <2>2
  <1>3. CASE k > 0 /\ c = WholeUpTo(p, j, k - 1) \cup {Entry(p[k], j, FALSE)}
    <2>1. k - 1 \in Nat /\ (k - 1) + 1 = k
      BY <1>3
    <2>2. UpTo(p, k) = UpTo(p, k - 1) \cup {p[k]}
      BY <2>1, WholeGrows
    <2>3. Entry(p[k], j, FALSE).file = p[k] /\ Entry(p[k], j, FALSE).by = j
      BY DEF Entry
    <2>4. FilesOf(c) = FilesOf(WholeUpTo(p, j, k - 1)) \cup {p[k]}
      BY <1>3, FilesOfOneMore
    <2>5. FilesOf(c) = UpTo(p, k)
      BY <2>2, <2>4, FilesOfWhole
    <2>6. \A e \in WholeUpTo(p, j, k - 1) : e.whole /\ e.by = j
      BY DEF WholeUpTo, Entry
    <2>7. \A e \in c : (e.whole \/ e.file = p[k]) /\ e.by = j
      BY <1>3, <2>3, <2>6
    <2> QED
      BY <2>5, <2>7
  <1> QED
    BY <1>1, <1>2, <1>3

-----------------------------------------------------------------------------
(* The inductive invariant of the jobs. *)

Statuses == {"absent", "working"} \cup Ended
Listing == [upto : Nat, names : SUBSET FileNames]

Shapes ==
    /\ request \in [Jobs -> Requests]
    /\ status \in [Jobs -> Statuses]
    /\ at \in [Jobs -> Nat]
    /\ todo \in [Jobs -> Seq(FileNames)]
    /\ begun \in [Jobs -> BOOLEAN]
    /\ planned \in [Jobs -> Seq(FileNames)]
    /\ DOMAIN contents = Names
    /\ listings \in [Jobs -> Seq(Listing)]
    /\ trace \in [Jobs -> {"off", "open", "flushed"}]

(* Where a job is in its script; without a directory it has not set out to *)
(* write anything, and it writes only in the operations that write.        *)
Stage(j) ==
    /\ at[j] \in DOMAIN Script(request[j])
    /\ status[j] = "absent" <=> search[j] = "idle"
    /\ search[j] = "seeking" => status[j] = "working"
    /\ search[j] # "holding" =>
          todo[j] = <<>> /\ planned[j] = <<>> /\ listings[j] = <<>>
    /\ begun[j] = TRUE => todo[j] # <<>>
    /\ todo[j] # <<>> => /\ status[j] \in {"working", "cancelled"}
                         /\ Op(j) \in WriteOps

(* What it set out to write belongs to the operations it has come to, and  *)
(* no file is written twice.                                               *)
PlannedInOrder(j) ==
    /\ \A i \in DOMAIN planned[j] :
          \E p \in 1 .. at[j] :
             /\ planned[j][i] \in FilesAt(request[j], p)
             /\ p = at[j] => todo[j] # <<>> \/ status[j] # "working"
    /\ NoTwice(planned[j])

(* Its directory holds what it has written so far. *)
Holds(j) ==
    search[j] = "holding" =>
        \/ InTheMiddle(planned[j], todo[j], begun[j], contents[Name(j)], j)
        \/ /\ todo[j] = <<>>
           /\ status[j] \in {"failed", "cancelled"}
           /\ Abandoned(planned[j], contents[Name(j)], j)

(* What it has listed is a beginning of its plan; a job that lists, lists  *)
(* last.                                                                   *)
Listed(j) ==
    /\ \A i \in DOMAIN listings[j] :
          /\ listings[j][i].upto \in 0 .. Len(planned[j])
          /\ listings[j][i].names = UpTo(planned[j], listings[j][i].upto)
    /\ listings[j] # <<>> => Script(request[j])[Len(Script(request[j]))] = "list"
    /\ status[j] = "completed" /\ listings[j] # <<>> =>
          listings[j][Len(listings[j])].upto = Len(planned[j])

JobInv(j) == Stage(j) /\ PlannedInOrder(j) /\ Holds(j) /\ Listed(j)

(* Whoever makes a directory finds it empty. *)
NewIsEmpty == \A n \in Names : n \notin taken => contents[n] = {}

FilesInv == DirInv /\ Shapes /\ NewIsEmpty /\ \A j \in Jobs : JobInv(j)

(* The script of a request has the form the proofs need. *)
LEMMA ScriptOf ==
    ASSUME Shapes, NEW j \in Jobs
    PROVE  /\ GoodScript(request[j])
           /\ Len(Script(request[j])) \in Nat \ {0}
           /\ DOMAIN Script(request[j]) = 1 .. Len(Script(request[j]))
  <1>1. request[j] \in Request
    BY RequestsAssumption DEF Shapes
  <1>2. GoodScript(request[j])
    BY <1>1, ScriptIsGood
  <1>3. Script(request[j]) \in Seq(Ops) /\ Script(request[j]) # <<>>
    BY <1>2 DEF GoodScript
  <1> QED
    BY <1>2, <1>3

(* Before any job starts. *)
LEMMA FilesInvInitially == ArtifactsInit => FilesInv
  <1> SUFFICES ASSUME ArtifactsInit PROVE FilesInv
    OBVIOUS
  <1>1. DirInv
    BY DirInvInitially DEF ArtifactsInit
  <1>2. Shapes
    BY DEF ArtifactsInit, Shapes, Statuses
  <1>3. NewIsEmpty
    BY DEF ArtifactsInit, NewIsEmpty
  <1>4. ASSUME NEW j \in Jobs
        PROVE  JobInv(j)
    <2>1. /\ status[j] = "absent" /\ at[j] = 1 /\ todo[j] = <<>> /\ begun[j] = FALSE
          /\ planned[j] = <<>> /\ listings[j] = <<>> /\ search[j] = "idle"
      BY DEF ArtifactsInit, DirInit
    <2>2. 1 \in DOMAIN Script(request[j])
      BY <1>2, ScriptOf
    <2>3. Stage(j)
      BY <2>1, <2>2 DEF Stage
    <2>4. PlannedInOrder(j)
      BY <2>1 DEF PlannedInOrder, NoTwice
    <2>5. Holds(j)
      BY <2>1 DEF Holds
    <2>6. Listed(j)
      BY <2>1 DEF Listed
    <2> QED
      BY <2>3, <2>4, <2>5, <2>6 DEF JobInv
  <1> QED
    BY <1>1, <1>2, <1>3, <1>4 DEF FilesInv

-----------------------------------------------------------------------------
(* A step of one job. *)

StepOf(j) == Start(j) \/ JobStep(j) \/ Cancel(j)

(* It leaves the other jobs alone. *)
Untouched(i) ==
    /\ request'[i] = request[i] /\ status'[i] = status[i] /\ at'[i] = at[i]
    /\ todo'[i] = todo[i] /\ begun'[i] = begun[i] /\ planned'[i] = planned[i]
    /\ listings'[i] = listings[i] /\ trace'[i] = trace[i]
    /\ second'[i] = second[i] /\ suffix'[i] = suffix[i] /\ search'[i] = search[i]

(* It stays well typed: going on to the next operation or ending. *)
LEMMA AdvanceIs ==
    ASSUME Shapes, NEW j \in Jobs, Stage(j), status[j] = "working", Advance(j)
    PROVE  /\ status' \in [Jobs -> Statuses] /\ at' \in [Jobs -> Nat]
           /\ trace' \in [Jobs -> {"off", "open", "flushed"}]
           /\ \A i \in Jobs : i # j =>
                 status'[i] = status[i] /\ at'[i] = at[i] /\ trace'[i] = trace[i]
           /\ \/ /\ status'[j] = "working" /\ at'[j] = at[j] + 1
                 /\ at'[j] \in DOMAIN Script(request[j])
              \/ /\ status'[j] = "completed" /\ at'[j] = at[j]
                 /\ at[j] = Len(Script(request[j]))
  <1> DEFINE n == Len(Script(request[j]))
  <1>1. at[j] \in 1 .. n /\ n \in Nat /\ DOMAIN Script(request[j]) = 1 .. n
    BY ScriptOf DEF Stage
  <1> HIDE DEF n
  <1>2. CASE at[j] < n
    <2>1. at' = [at EXCEPT ![j] = at[j] + 1] /\ UNCHANGED <<status, trace>>
      BY <1>2 DEF Advance, n
    <2>2. at[j] + 1 \in 1 .. n
      BY <1>1, <1>2
    <2> QED
      BY <1>1, <2>1, <2>2 DEF Shapes
  <1>3. CASE ~(at[j] < n)
    <2>1. /\ status' = [status EXCEPT ![j] = "completed"]
          /\ Flush(j) /\ at' = at
      BY <1>3 DEF Advance, n
    <2>2. at[j] = n
      BY <1>1, <1>3
    <2>3. /\ trace' \in [Jobs -> {"off", "open", "flushed"}]
          /\ \A i \in Jobs : i # j => trace'[i] = trace[i]
      BY <2>1 DEF Flush, Shapes
    <2>4. /\ status' \in [Jobs -> Statuses] /\ status'[j] = "completed"
          /\ \A i \in Jobs : i # j => status'[i] = status[i]
      BY <2>1 DEF Shapes, Statuses, Ended
    <2> QED
      BY <2>1, <2>2, <2>3, <2>4 DEF Shapes, n
  <1> QED
    BY <1>2, <1>3

(* How an operation ends that does not touch the files. *)
Continues(j) ==
    /\ status'[j] = "working" /\ at'[j] = at[j] + 1
    /\ at'[j] \in DOMAIN Script(request[j])
Completes(j) ==
    /\ status'[j] = "completed" /\ at'[j] = at[j]
    /\ at[j] = Len(Script(request[j]))
Ends(j) == status'[j] \in Ended \ {"completed"} /\ at'[j] = at[j]

(* What all steps of a job have in common. *)
Apart(j) ==
    /\ request' = request
    /\ Shapes'
    /\ \A i \in Jobs : i # j => Untouched(i)

WorkStep(j) ==
    \/ Prepared(j) \/ PrepareRaises(j)
    \/ Detected(j) \/ DetectRaises(j) \/ RunSyncRaises(j)
    \/ GraphEnds(j) \/ GraphRaises(j) \/ Cancel(j)

(* An operation that touches no file. *)
LEMMA WorkIsApart ==
    ASSUME Shapes, NEW j \in Jobs, Stage(j), WorkStep(j)
    PROVE  /\ Apart(j)
           /\ UNCHANGED <<dirVars, fileVars>>
           /\ status[j] = "working" /\ search[j] = "holding"
           /\ Continues(j) \/ Completes(j) \/ Ends(j)
           /\ Op(j) \in {"prepare", "detect", "graph", "finish"}
              \/ (Op(j) = "write_fixed" /\ status'[j] = "cancelled")
           /\ Completes(j) => Op(j) # "list"
  <1>1. UNCHANGED <<dirVars, request, fileVars>>
    BY DEF WorkStep, Prepared, PrepareRaises, Detected, DetectRaises, RunSyncRaises,
           GraphEnds, GraphRaises, Cancel
  <1>2. status[j] = "working" /\ search[j] = "holding"
    BY DEF WorkStep, Prepared, PrepareRaises, Detected, DetectRaises, RunSyncRaises,
           GraphEnds, GraphRaises, Cancel, Working
  <1>3. /\ status' \in [Jobs -> Statuses] /\ at' \in [Jobs -> Nat]
        /\ trace' \in [Jobs -> {"off", "open", "flushed"}]
        /\ \A i \in Jobs : i # j =>
              status'[i] = status[i] /\ at'[i] = at[i] /\ trace'[i] = trace[i]
        /\ Continues(j) \/ Completes(j) \/ Ends(j)
        /\ Op(j) \in {"prepare", "detect", "graph", "finish"}
           \/ (Op(j) = "write_fixed" /\ status'[j] = "cancelled")
    <2>1. CASE Prepared(j)
      <3>1. Op(j) = "prepare" /\ at' = [at EXCEPT ![j] = at[j] + 1] /\ status' = status
        BY <2>1 DEF Prepared, Working
      <3>2. at[j] + 1 \in DOMAIN Script(request[j])
        BY <3>1, ScriptOf DEF GoodScript, Stage, Op
      <3>3. /\ trace' \in [Jobs -> {"off", "open", "flushed"}]
            /\ \A i \in Jobs : i # j => trace'[i] = trace[i]
        BY <2>1 DEF Prepared, StartRun, Shapes
      <3>4. at[j] + 1 \in Nat /\ at'[j] = at[j] + 1 /\ at' \in [Jobs -> Nat]
        BY <3>1 DEF Shapes
      <3> QED
        BY <1>2, <3>1, <3>2, <3>3, <3>4 DEF Shapes, Continues
    <2>2. CASE PrepareRaises(j)
      <3>1. Op(j) = "prepare" /\ at' = at /\ status' = [status EXCEPT ![j] = "bad_input"]
        BY <2>2 DEF PrepareRaises, Working, End
      <3>2. /\ trace' \in [Jobs -> {"off", "open", "flushed"}]
            /\ \A i \in Jobs : i # j => trace'[i] = trace[i]
        BY <2>2 DEF PrepareRaises, Flush, Shapes
      <3> QED
        BY <3>1, <3>2 DEF Shapes, Ends, Ended, Statuses
    <2>3. CASE Detected(j)
      BY <1>2, <2>3, AdvanceIs DEF Detected, Working, Continues, Completes
    <2>4. CASE GraphEnds(j)
      BY <1>2, <2>4, AdvanceIs DEF GraphEnds, Working, Continues, Completes
    <2>5. CASE DetectRaises(j)
      BY <2>5 DEF DetectRaises, Working, End, Shapes, Ends, Ended, Statuses
    <2>6. CASE RunSyncRaises(j)
      BY <2>6 DEF RunSyncRaises, Working, End, Shapes, Ends, Ended, Statuses
    <2>7. CASE GraphRaises(j)
      BY <2>7 DEF GraphRaises, Working, End, Shapes, Ends, Ended, Statuses
    <2>8. CASE Cancel(j)
      BY <2>8 DEF Cancel, Working, End, Shapes, Ends, Ended, Statuses
    <2> QED
      BY <2>1, <2>2, <2>3, <2>4, <2>5, <2>6, <2>7, <2>8 DEF WorkStep
  <1>4. Shapes'
    BY <1>1, <1>3 DEF Shapes, fileVars, Names
  <1>5. \A i \in Jobs : i # j => Untouched(i)
    BY <1>1, <1>3 DEF Untouched, fileVars, dirVars
  <1>6. Completes(j) => Op(j) # "list"
    BY <1>3
  <1> QED
    BY <1>1, <1>2, <1>3, <1>4, <1>5, <1>6 DEF Apart

(* It keeps what is known of its job. *)
LEMMA WorkKeeps ==
    ASSUME Shapes, NEW j \in Jobs, JobInv(j), WorkStep(j)
    PROVE  JobInv(j)'
  <1>1. Stage(j) /\ PlannedInOrder(j) /\ Holds(j) /\ Listed(j)
    BY DEF JobInv
  <1>2. /\ request' = request
        /\ UNCHANGED <<dirVars, fileVars>>
        /\ status[j] = "working" /\ search[j] = "holding"
        /\ Continues(j) \/ Completes(j) \/ Ends(j)
        /\ Op(j) \in {"prepare", "detect", "graph", "finish"}
           \/ (Op(j) = "write_fixed" /\ status'[j] = "cancelled")
        /\ Completes(j) => Op(j) # "list"
    BY <1>1, WorkIsApart DEF Apart
  <1>3. /\ search' = search /\ second' = second /\ suffix' = suffix
        /\ todo' = todo /\ begun' = begun /\ planned' = planned
        /\ contents' = contents /\ listings' = listings
    BY <1>2 DEF dirVars, fileVars
  <1>4. todo[j] # <<>> => Ends(j) /\ status'[j] = "cancelled"
    <2>1. todo[j] # <<>> => Op(j) \in WriteOps
      BY <1>1 DEF Stage
    <2>2. todo[j] # <<>> => status'[j] = "cancelled"
      BY <1>2, <2>1 DEF WriteOps
    <2> QED
      BY <1>2, <2>2 DEF Continues, Completes
  <1>5. at[j] \in Nat /\ DOMAIN Script(request[j]) = 1 .. Len(Script(request[j]))
    BY ScriptOf DEF Shapes
  <1>6. /\ status'[j] # "absent" /\ search'[j] = "holding"
        /\ at'[j] \in DOMAIN Script(request[j])
    BY <1>1, <1>2, <1>3 DEF Continues, Completes, Ends, Ended, Stage
  <1>7. Stage(j)'
    <2>1. todo[j] # <<>> => at'[j] = at[j]
      BY <1>4 DEF Ends
    <2> QED
      BY <1>1, <1>2, <1>3, <1>4, <1>6, <2>1 DEF Stage, Op
  <1>8. PlannedInOrder(j)'
    <2> SUFFICES ASSUME NEW i \in DOMAIN planned[j]
                 PROVE  \E p \in 1 .. at'[j] :
                           /\ planned[j][i] \in FilesAt(request[j], p)
                           /\ p = at'[j] => todo[j] # <<>> \/ status'[j] # "working"
      BY <1>1, <1>2, <1>3 DEF PlannedInOrder
    <2>1. PICK p \in 1 .. at[j] :
             /\ planned[j][i] \in FilesAt(request[j], p)
             /\ p = at[j] => todo[j] # <<>> \/ status[j] # "working"
      BY <1>1 DEF PlannedInOrder
    <2>2. CASE Continues(j)
      <3>1. p \in 1 .. at'[j] /\ p # at'[j]
        BY <1>5, <2>2 DEF Continues
      <3> QED
        BY <2>1, <3>1
    <2>3. CASE ~Continues(j)
      <3>1. at'[j] = at[j] /\ status'[j] # "working"
        BY <1>2, <2>3 DEF Completes, Ends, Ended
      <3> QED
        BY <2>1, <3>1
    <2> QED
      BY <2>2, <2>3
  <1>9. Holds(j)'
    BY <1>1, <1>2, <1>3 DEF Holds, Name
  <1>10. Listed(j)'
    <2>1. CASE Completes(j)
      <3>1. Op(j) = Script(request[j])[Len(Script(request[j]))]
        BY <2>1 DEF Completes, Op
      <3>2. listings[j] = <<>>
        BY <1>1, <1>2, <2>1, <3>1 DEF Listed
      <3> QED
        BY <1>1, <1>2, <1>3, <3>2 DEF Listed
    <2>2. CASE ~Completes(j)
      <3>1. status'[j] # "completed"
        BY <1>2, <2>2 DEF Continues, Ends
      <3> QED
        BY <1>1, <1>2, <1>3, <3>1 DEF Listed
    <2> QED
      BY <2>1, <2>2
  <1> QED
    BY <1>7, <1>8, <1>9, <1>10 DEF JobInv

(* What a step of the search leaves as it is. *)
SearchOnly(j) == Start(j) \/ TakesDirectory(j) \/ LooksFurther(j) \/ GetsNoDirectory(j)

(* Looking for a directory touches no file. *)
LEMMA SearchIsApart ==
    ASSUME Shapes, DirTypeOK, NEW j \in Jobs, SearchOnly(j)
    PROVE  /\ Apart(j)
           /\ at' = at /\ UNCHANGED fileVars
  <1>1. /\ request' = request /\ at' = at /\ UNCHANGED fileVars
    BY DEF SearchOnly, Start, TakesDirectory, LooksFurther, GetsNoDirectory, jobVars
  <1>2. /\ status' \in [Jobs -> Statuses]
        /\ trace' \in [Jobs -> {"off", "open", "flushed"}]
        /\ \A i \in Jobs : i # j => status'[i] = status[i] /\ trace'[i] = trace[i]
    <2>1. CASE Start(j)
      BY <2>1 DEF Start, End, Shapes, Statuses
    <2>2. CASE TakesDirectory(j)
      BY <2>2 DEF TakesDirectory, StartRun, Shapes
    <2>3. CASE LooksFurther(j)
      BY <2>3 DEF LooksFurther, jobVars, Shapes
    <2>4. CASE GetsNoDirectory(j)
      BY <2>4 DEF GetsNoDirectory, End, Shapes, Statuses, Ended
    <2> QED
      BY <2>1, <2>2, <2>3, <2>4 DEF SearchOnly
  <1>3. \A i \in Jobs : i # j =>
           second'[i] = second[i] /\ suffix'[i] = suffix[i] /\ search'[i] = search[i]
    <2>1. CASE Start(j)
      BY <2>1 DEF Start, StartSearch, DirTypeOK
    <2>2. CASE TakesDirectory(j)
      BY <2>2 DEF TakesDirectory, MakeDirectory, DirTypeOK
    <2>3. CASE LooksFurther(j)
      BY <2>3 DEF LooksFurther, TryNextSuffix, DirTypeOK
    <2>4. CASE GetsNoDirectory(j)
      BY <2>4 DEF GetsNoDirectory, Refuse, SearchRaises, DirTypeOK
    <2> QED
      BY <2>1, <2>2, <2>3, <2>4 DEF SearchOnly
  <1>4. Shapes'
    BY <1>1, <1>2 DEF Shapes, fileVars
  <1>5. \A i \in Jobs : i # j => Untouched(i)
    BY <1>1, <1>2, <1>3 DEF Untouched, fileVars
  <1> QED
    BY <1>1, <1>4, <1>5 DEF Apart

(* It keeps what is known of its job, and a directory it makes is empty.   *)
LEMMA SearchKeeps ==
    ASSUME Shapes, DirTypeOK, NewIsEmpty, NEW j \in Jobs, JobInv(j), SearchOnly(j)
    PROVE  JobInv(j)'
  <1>1. Stage(j) /\ PlannedInOrder(j) /\ Holds(j) /\ Listed(j)
    BY DEF JobInv
  <1>2. /\ request' = request /\ at' = at
        /\ todo' = todo /\ begun' = begun /\ planned' = planned
        /\ contents' = contents /\ listings' = listings
    BY SearchIsApart DEF Apart, fileVars
  <1>3. /\ search[j] # "holding"
        /\ \/ search'[j] = "seeking" /\ status'[j] = "working"
           \/ /\ search'[j] = "holding" /\ status'[j] = "working"
              /\ Name(j)' = Name(j) /\ Name(j) \notin taken /\ Name(j) \in Names
           \/ search'[j] \in {"refused", "failed"} /\ status'[j] = "no_directory"
    <2>1. CASE Start(j)
      BY <2>1 DEF Start, StartSearch, End, DirTypeOK, Shapes
    <2>2. CASE TakesDirectory(j)
      <3>1. Name(j)' = Name(j)
        BY <2>2 DEF TakesDirectory, MakeDirectory, Name
      <3>2. Name(j) \in Names
        BY DEF DirTypeOK, Name, Names
      <3>3. /\ search[j] = "seeking" /\ Name(j) \notin taken /\ search'[j] = "holding"
            /\ status' = status
        BY <2>2 DEF TakesDirectory, MakeDirectory, DirTypeOK
      <3> QED
        BY <1>1, <3>1, <3>2, <3>3 DEF Stage
    <2>3. CASE LooksFurther(j)
      <3>1. search[j] = "seeking" /\ search' = search /\ status' = status
        BY <2>3 DEF LooksFurther, TryNextSuffix, jobVars
      <3> QED
        BY <1>1, <3>1 DEF Stage
    <2>4. CASE GetsNoDirectory(j)
      BY <2>4 DEF GetsNoDirectory, Refuse, SearchRaises, End, DirTypeOK, Shapes
    <2> QED
      BY <2>1, <2>2, <2>3, <2>4 DEF SearchOnly
  <1>4. /\ todo[j] = <<>> /\ planned[j] = <<>> /\ listings[j] = <<>>
        /\ begun[j] = FALSE
    <2>1. todo[j] = <<>> /\ planned[j] = <<>> /\ listings[j] = <<>>
      BY <1>1, <1>3 DEF Stage
    <2>2. begun[j] \in BOOLEAN /\ begun[j] # TRUE
      BY <1>1, <2>1 DEF Stage, Shapes
    <2> QED
      BY <2>1, <2>2
  <1>5. Stage(j)'
    <2>1. at'[j] \in DOMAIN Script(request'[j])
      BY <1>1, <1>2 DEF Stage
    <2> QED
      BY <1>2, <1>3, <1>4, <2>1 DEF Stage
  <1>6. PlannedInOrder(j)'
    BY <1>2, <1>4 DEF PlannedInOrder, NoTwice
  <1>7. Holds(j)'
    <2>1. CASE search'[j] = "holding"
      <3>1. Name(j)' = Name(j) /\ contents[Name(j)] = {}
        BY <1>3, <2>1 DEF NewIsEmpty
      <3>2. InTheMiddle(<<>>, <<>>, FALSE, {}, j)
        BY NothingYet
      <3>3. /\ planned'[j] = <<>> /\ todo'[j] = <<>> /\ begun'[j] = FALSE
            /\ contents'[Name(j)'] = {}
        BY <1>2, <1>4, <3>1
      <3> QED
        BY <3>2, <3>3 DEF Holds
    <2>2. CASE search'[j] # "holding"
      BY <2>2 DEF Holds
    <2> QED
      BY <2>1, <2>2
  <1>8. Listed(j)'
    BY <1>2, <1>4 DEF Listed
  <1> QED
    BY <1>5, <1>6, <1>7, <1>8 DEF JobInv

-----------------------------------------------------------------------------
(* The steps that set out to write, open, fill, fail and list. *)

(* A function on 1 .. n is a sequence of length n. *)
LEMMA FunctionIsSequence ==
    ASSUME NEW S, NEW n \in Nat, NEW f \in [1 .. n -> S]
    PROVE  f \in Seq(S) /\ Len(f) = n
  OBVIOUS

(* What a job sets out to write belongs to the operation it is at. *)
LEMMA BatchOf ==
    ASSUME Shapes, NEW j \in Jobs, Stage(j), NEW group \in Groups(Op(j)),
           NEW batch, batch = [i \in DOMAIN group |-> <<Unit(j), group[i]>>]
    PROVE  /\ Op(j) \in WriteOps
           /\ batch \in Seq(FileNames) /\ batch # <<>>
           /\ \A i \in DOMAIN batch : batch[i] \in FilesAt(request[j], at[j])
           /\ NoTwice(batch)
  <1> DEFINE names == NamesOf(Op(j))
             n == Len(group)
  <1>1. Op(j) \in WriteOps /\ GroupOf(names, group)
    BY EveryGroupIsAGroup
  <1>2. group \in Seq(names) /\ n \in Nat /\ n # 0 /\ DOMAIN group = 1 .. n
    BY <1>1 DEF GroupOf
  <1>3. Unit(j) = UnitAt(request[j], at[j])
    BY DEF Unit, UnitAt
  <1>4. Op(j) = Script(request[j])[at[j]]
    BY DEF Op
  <1>5. FilesAt(request[j], at[j]) \subseteq FileNames
    BY ScriptOf DEF Stage, GoodScript
  <1>6. \A i \in 1 .. n : group[i] \in names
    BY <1>2
  <1> HIDE DEF n
  <1>7. DOMAIN batch = 1 .. n
    BY <1>2
  <1>8. \A i \in 1 .. n : batch[i] = <<Unit(j), group[i]>>
    BY <1>2
  <1>9. \A i \in 1 .. n : batch[i] \in FilesAt(request[j], at[j])
    BY <1>3, <1>4, <1>6, <1>8 DEF FilesAt
  <1>10. batch \in [1 .. n -> FileNames]
    <2>1. batch = [i \in 1 .. n |-> batch[i]]
      BY <1>2
    <2>2. \A i \in 1 .. n : batch[i] \in FileNames
      BY <1>5, <1>9
    <2> QED
      BY <2>1, <2>2
  <1>11. batch \in Seq(FileNames) /\ batch # <<>>
    <2>1. batch \in Seq(FileNames) /\ Len(batch) = n
      BY ONLY <1>2, <1>10, FunctionIsSequence
    <2> QED
      BY ONLY <1>2, <2>1
  <1>12. NoTwice(batch)
    <2>1. \A i, k \in 1 .. n : batch[i] = batch[k] => group[i] = group[k]
      BY <1>8
    <2>2. \A i, k \in 1 .. n : group[i] = group[k] => i = k
      BY <1>1, <1>2 DEF GroupOf
    <2> QED
      BY <1>7, <2>1, <2>2 DEF NoTwice
  <1> QED
    BY <1>1, <1>7, <1>9, <1>11, <1>12

(* A job that takes up a group has planned files of its operation only. *)
LEMMA StartKeeps ==
    ASSUME Shapes, NEW j \in Jobs, JobInv(j), StartWriting(j)
    PROVE  Apart(j) /\ JobInv(j)'
  <1>1. Stage(j) /\ PlannedInOrder(j) /\ Holds(j) /\ Listed(j)
    BY DEF JobInv
  <1>2. /\ status[j] = "working" /\ search[j] = "holding" /\ todo[j] = <<>>
        /\ UNCHANGED <<dirVars, request, status, at, begun, contents, listings, trace>>
    BY DEF StartWriting
  <1>3. PICK group \in Groups(Op(j)) :
           LET batch == [i \in DOMAIN group |-> <<Unit(j), group[i]>>]
           IN  /\ todo' = [todo EXCEPT ![j] = batch]
               /\ planned' = [planned EXCEPT ![j] = @ \o batch]
    BY DEF StartWriting
  <1> DEFINE g == [i \in DOMAIN group |-> <<Unit(j), group[i]>>]
             p == planned[j]
             r == request[j]
  <1>4. /\ todo' = [todo EXCEPT ![j] = g]
        /\ planned' = [planned EXCEPT ![j] = p \o g]
    BY <1>3
  <1>5. /\ Op(j) \in WriteOps
        /\ g \in Seq(FileNames) /\ g # <<>>
        /\ \A i \in DOMAIN g : g[i] \in FilesAt(r, at[j])
        /\ NoTwice(g)
    BY <1>1, BatchOf
  <1>6. p \in Seq(FileNames)
    BY DEF Shapes
  <1> HIDE DEF g, p, r
  <1>7. /\ p \o g \in Seq(FileNames)
        /\ Len(p \o g) = Len(p) + Len(g)
        /\ \A i \in 1 .. Len(p) : (p \o g)[i] = p[i]
        /\ \A i \in 1 .. Len(g) : (p \o g)[Len(p) + i] = g[i]
    <2>1. g \in Seq(FileNames)
      BY <1>5
    <2> QED
      BY <1>6, <2>1, ConcatEntries
  <1>8. todo'[j] = g /\ planned'[j] = p \o g
    BY <1>4 DEF Shapes
  <1>9. Apart(j)
    <2>1. Shapes'
      BY <1>2, <1>4, <1>5, <1>7 DEF Shapes
    <2>2. \A i \in Jobs : i # j => Untouched(i)
      BY <1>2, <1>4 DEF Shapes, Untouched, dirVars
    <2> QED
      BY <1>2, <2>1, <2>2 DEF Apart
  <1>n. /\ Len(p) \in Nat /\ Len(g) \in Nat
        /\ DOMAIN p = 1 .. Len(p) /\ DOMAIN g = 1 .. Len(g)
        /\ DOMAIN (p \o g) = 1 .. Len(p) + Len(g)
    BY <1>5, <1>6, <1>7
  <1>o. Op(j)' = Op(j)
    BY <1>2 DEF Op
  <1>10. Stage(j)'
    BY <1>1, <1>2, <1>5, <1>8, <1>o DEF Stage, dirVars
  <1>11. \A i \in 1 .. Len(p) : \E q \in 1 .. at[j] :
            p[i] \in FilesAt(r, q) /\ q # at[j]
    BY <1>1, <1>2, <1>n DEF PlannedInOrder, p, r
  <1>12. PlannedInOrder(j)'
    <2>1. at[j] \in 1 .. at[j] /\ at[j] \in DOMAIN Script(r)
      BY <1>1, ScriptOf DEF Stage, r
    <2>2. \A i \in 1 .. Len(p) + Len(g) :
             i \in 1 .. Len(p) \/ (\E k \in 1 .. Len(g) : i = Len(p) + k)
      <3> TAKE i \in 1 .. Len(p) + Len(g)
      <3>1. i \in 1 .. Len(p) \/ (i - Len(p) \in 1 .. Len(g) /\ i = Len(p) + (i - Len(p)))
        BY <1>n
      <3> QED
        BY <3>1
    <2>3. \A i \in 1 .. Len(g) : (p \o g)[Len(p) + i] \in FilesAt(r, at[j])
      BY <1>5, <1>7, <1>n
    <2>4. \A i \in 1 .. Len(p) + Len(g) :
             \E q \in 1 .. at[j] : (p \o g)[i] \in FilesAt(r, q)
      BY <1>7, <1>11, <2>1, <2>2, <2>3
    <2>5. ASSUME NEW i \in 1 .. Len(p)
          PROVE  p[i] \notin FilesAt(r, at[j])
      <3>1. PICK q \in 1 .. at[j] : p[i] \in FilesAt(r, q) /\ q # at[j]
        BY <1>11
      <3>2. GoodScript(r) /\ DOMAIN Script(r) = 1 .. Len(Script(r))
        BY ScriptOf DEF r
      <3>3. q \in DOMAIN Script(r)
        BY <2>1, <3>2
      <3>4. FilesAt(r, q) \cap FilesAt(r, at[j]) = {}
        BY <2>1, <3>1, <3>2, <3>3 DEF GoodScript
      <3> QED
        BY <3>1, <3>4
    <2>6. NoTwice(p \o g)
      <3> SUFFICES ASSUME NEW i \in 1 .. Len(p) + Len(g), NEW k \in 1 .. Len(p) + Len(g),
                          (p \o g)[i] = (p \o g)[k]
                   PROVE  i = k
        BY <1>n DEF NoTwice
      <3>1. CASE i \in 1 .. Len(p) /\ k \in 1 .. Len(p)
        <4>1. p[i] = p[k]
          BY <1>7, <3>1
        <4>2. NoTwice(p)
          BY <1>1 DEF PlannedInOrder, p
        <4> QED
          BY <1>n, <3>1, <4>1, <4>2 DEF NoTwice
      <3>2. CASE i \in 1 .. Len(p) /\ k \notin 1 .. Len(p)
        BY <1>7, <2>2, <2>3, <2>5, <3>2
      <3>3. CASE i \notin 1 .. Len(p) /\ k \in 1 .. Len(p)
        BY <1>7, <2>2, <2>3, <2>5, <3>3
      <3>4. CASE i \notin 1 .. Len(p) /\ k \notin 1 .. Len(p)
        <4>1. PICK a \in 1 .. Len(g) : i = Len(p) + a
          BY <2>2, <3>4
        <4>2. PICK b \in 1 .. Len(g) : k = Len(p) + b
          BY <2>2, <3>4
        <4>3. g[a] = g[b]
          BY <1>7, <4>1, <4>2
        <4>4. a = b
          BY <1>5, <1>n, <4>3 DEF NoTwice
        <4> QED
          BY <4>1, <4>2, <4>4
      <3> QED
        BY <3>1, <3>2, <3>3, <3>4
    <2> QED
      BY <1>2, <1>5, <1>8, <1>n, <2>4, <2>6 DEF PlannedInOrder, r
  <1>13. Holds(j)'
    <2>1. InTheMiddle(p, <<>>, FALSE, contents[Name(j)], j)
      <3>1. InTheMiddle(p, todo[j], begun[j], contents[Name(j)], j)
        BY <1>1, <1>2 DEF Holds, p
      <3>2. begun[j] = FALSE
        BY <1>1, <1>2 DEF Stage, Shapes
      <3> QED
        BY <1>2, <3>1, <3>2
    <2>2. InTheMiddle(p \o g, g, FALSE, contents[Name(j)], j)
      BY <1>5, <1>6, <2>1, TakingUp
    <2>3. /\ begun'[j] = FALSE /\ contents'[Name(j)'] = contents[Name(j)]
      BY <1>1, <1>2 DEF Stage, Shapes, Name, dirVars
    <2> QED
      BY <1>8, <2>2, <2>3 DEF Holds
  <1>14. Listed(j)'
    <2>1. ASSUME NEW i \in DOMAIN listings[j]
          PROVE  /\ listings[j][i].upto \in 0 .. Len(p \o g)
                 /\ listings[j][i].names = UpTo(p \o g, listings[j][i].upto)
      <3> DEFINE k == listings[j][i].upto
                 q == p \o g
      <3>1. k \in 0 .. Len(p) /\ listings[j][i].names = UpTo(p, k)
        BY <1>1 DEF Listed, p
      <3>2. \A m \in 1 .. k : p[m] = q[m]
        BY <1>7, <1>n, <3>1
      <3>3. k \in 0 .. Len(q)
        BY <1>7, <1>n, <3>1
      <3> HIDE DEF q, k
      <3>4. UpTo(p, k) = UpTo(q, k)
        BY <3>2, WholeOfMore
      <3> QED
        BY <3>1, <3>3, <3>4 DEF q, k
    <2> QED
      BY <1>1, <1>2, <1>8, <2>1 DEF Listed
  <1> QED
    BY <1>9, <1>10, <1>12, <1>13, <1>14 DEF JobInv

(* A job that has something to write is in the middle of it. *)
LEMMA WriterIsInTheMiddle ==
    ASSUME Shapes, DirTypeOK, NEW j \in Jobs, JobInv(j), todo[j] # <<>>
    PROVE  /\ search[j] = "holding" /\ Name(j) \in Names
           /\ status[j] \in {"working", "cancelled"} /\ Op(j) \in WriteOps
           /\ planned[j] \in Seq(FileNames) /\ todo[j] \in Seq(FileNames)
           /\ InTheMiddle(planned[j], todo[j], begun[j], contents[Name(j)], j)
           /\ NoTwice(planned[j])
  <1>1. Stage(j) /\ PlannedInOrder(j) /\ Holds(j)
    BY DEF JobInv
  <1>2. search[j] = "holding" /\ status[j] \in {"working", "cancelled"} /\ Op(j) \in WriteOps
    BY <1>1 DEF Stage
  <1>3. Name(j) \in Names
    BY DEF DirTypeOK, Name, Names
  <1> QED
    BY <1>1, <1>2, <1>3 DEF Holds, PlannedInOrder, Shapes

(* What a job knows of its plan survives a step that does not change it,   *)
(* as long as it does not go back to work that is done.                    *)
LEMMA PlanKept ==
    ASSUME Shapes, NEW j \in Jobs, PlannedInOrder(j),
           request'[j] = request[j], planned'[j] = planned[j],
           \/ /\ at'[j] = at[j]
              /\ todo'[j] # <<>> \/ status'[j] # "working"
           \/ at'[j] = at[j] + 1
    PROVE  PlannedInOrder(j)'
  <1>1. at[j] \in Nat
    BY DEF Shapes
  <1>2. ASSUME NEW i \in DOMAIN planned[j]
        PROVE  \E p \in 1 .. at'[j] :
                  /\ planned[j][i] \in FilesAt(request[j], p)
                  /\ p = at'[j] => todo'[j] # <<>> \/ status'[j] # "working"
    <2>1. PICK p \in 1 .. at[j] :
             /\ planned[j][i] \in FilesAt(request[j], p)
             /\ p = at[j] => todo[j] # <<>> \/ status[j] # "working"
      BY DEF PlannedInOrder
    <2>2. CASE at'[j] = at[j] + 1
      <3>1. p \in 1 .. at'[j] /\ p # at'[j]
        BY <1>1, <2>2
      <3> QED
        BY <2>1, <3>1
    <2>3. CASE at'[j] = at[j]
      <3>1. at[j] # at[j] + 1
        BY <1>1
      <3> QED
        BY <2>1, <2>3, <3>1
    <2> QED
      BY <2>2, <2>3
  <1> QED
    BY <1>2 DEF PlannedInOrder

(* What is left to write after a file. *)
LEMMA RestIsShorter ==
    ASSUME NEW S, NEW t \in Seq(S), t # <<>>
    PROVE  Tail(t) \in Seq(S) /\ (Tail(t) = <<>> <=> Len(t) = 1)
  <1>1. Tail(t) \in Seq(S) /\ Len(Tail(t)) = Len(t) - 1
    OBVIOUS
  <1>2. Len(t) \in Nat
    OBVIOUS
  <1>3. \A u \in Seq(S) : u = <<>> <=> Len(u) = 0
    OBVIOUS
  <1> QED
    BY <1>1, <1>2, <1>3

(* Nothing but its own directory. *)
OnlyItsDirectory(j) ==
    /\ DOMAIN contents' = DOMAIN contents
    /\ \A n \in Names : contents'[n] = contents[n] \/ (search[j] = "holding" /\ n = Name(j))

(* Opening a file. *)
LEMMA OpenKeeps ==
    ASSUME Shapes, DirTypeOK, NEW j \in Jobs, JobInv(j), OpenFile(j)
    PROVE  Apart(j) /\ OnlyItsDirectory(j) /\ JobInv(j)'
  <1>1. Stage(j) /\ PlannedInOrder(j) /\ Holds(j) /\ Listed(j)
    BY DEF JobInv
  <1> DEFINE p == planned[j]
             t == todo[j]
             c == contents[Name(j)]
  <1>2. /\ t # <<>> /\ begun[j] = FALSE
        /\ begun' = [begun EXCEPT ![j] = TRUE]
        /\ contents' = [contents EXCEPT ![Name(j)] = Opened(c, Head(t), j)]
        /\ UNCHANGED <<dirVars, request, status, at, todo, planned, listings, trace>>
    BY DEF OpenFile, Opened, Shapes
  <1>3. /\ search[j] = "holding" /\ Name(j) \in Names
        /\ p \in Seq(FileNames) /\ t \in Seq(FileNames)
        /\ InTheMiddle(p, t, FALSE, c, j) /\ NoTwice(p)
    BY <1>2, WriterIsInTheMiddle
  <1>4. /\ begun'[j] = TRUE /\ contents'[Name(j)] = Opened(c, Head(t), j)
        /\ Name(j)' = Name(j)
    BY <1>2, <1>3 DEF Shapes, dirVars, Name
  <1>5. Apart(j)
    <2>1. Shapes'
      BY <1>2 DEF Shapes
    <2>2. \A i \in Jobs : i # j => Untouched(i)
      BY <1>2 DEF Shapes, Untouched, dirVars
    <2> QED
      BY <1>2, <2>1, <2>2 DEF Apart
  <1>6. OnlyItsDirectory(j)
    BY <1>2, <1>3 DEF OnlyItsDirectory, Shapes
  <1>7. Stage(j)'
    BY <1>1, <1>2 DEF Stage, Op, dirVars
  <1>8. PlannedInOrder(j)'
    BY <1>1, <1>2, PlanKept
  <1>9. Holds(j)'
    <2>1. InTheMiddle(p, t, TRUE, Opened(c, Head(t), j), j)
      BY <1>2, <1>3, Opening
    <2> QED
      BY <1>2, <1>4, <2>1 DEF Holds
  <1>10. Listed(j)'
    BY <1>1, <1>2 DEF Listed
  <1> QED
    BY <1>5, <1>6, <1>7, <1>8, <1>9, <1>10 DEF JobInv

(* Filling one, and going on to the next operation after the last. *)
LEMMA FillKeeps ==
    ASSUME Shapes, DirTypeOK, NEW j \in Jobs, JobInv(j), FillFile(j)
    PROVE  Apart(j) /\ OnlyItsDirectory(j) /\ JobInv(j)'
  <1>1. Stage(j) /\ PlannedInOrder(j) /\ Holds(j) /\ Listed(j)
    BY DEF JobInv
  <1> DEFINE p == planned[j]
             t == todo[j]
             c == contents[Name(j)]
             r == Script(request[j])
  <1>2. /\ begun[j] = TRUE
        /\ begun' = [begun EXCEPT ![j] = FALSE]
        /\ todo' = [todo EXCEPT ![j] = Tail(t)]
        /\ contents' = [contents EXCEPT ![Name(j)] = Filled(c, Head(t), j)]
        /\ IF Len(t) = 1 /\ status[j] = "working"
           THEN Advance(j) ELSE UNCHANGED <<status, at, trace>>
        /\ UNCHANGED <<dirVars, request, planned, listings>>
    BY DEF FillFile, Filled, Shapes
  <1>3. t # <<>>
    BY <1>1, <1>2 DEF Stage
  <1>4. /\ search[j] = "holding" /\ Name(j) \in Names
        /\ status[j] \in {"working", "cancelled"} /\ Op(j) \in WriteOps
        /\ p \in Seq(FileNames) /\ t \in Seq(FileNames)
        /\ InTheMiddle(p, t, TRUE, c, j) /\ NoTwice(p)
    BY <1>2, <1>3, WriterIsInTheMiddle
  <1>5. /\ begun'[j] = FALSE /\ todo'[j] = Tail(t)
        /\ contents'[Name(j)] = Filled(c, Head(t), j)
        /\ Name(j)' = Name(j)
    BY <1>2, <1>4 DEF Shapes, dirVars, Name
  <1>6. /\ Tail(t) \in Seq(FileNames)
        /\ Tail(t) = <<>> <=> Len(t) = 1
    BY <1>3, <1>4, RestIsShorter
  <1>7. /\ status' \in [Jobs -> Statuses] /\ at' \in [Jobs -> Nat]
        /\ trace' \in [Jobs -> {"off", "open", "flushed"}]
        /\ \A i \in Jobs : i # j =>
              status'[i] = status[i] /\ at'[i] = at[i] /\ trace'[i] = trace[i]
        /\ \/ /\ Len(t) = 1 /\ status[j] = "working"
              /\ status'[j] = "working" /\ at'[j] = at[j] + 1
              /\ at'[j] \in DOMAIN r
           \/ /\ Len(t) = 1 /\ status[j] = "working"
              /\ status'[j] = "completed" /\ at'[j] = at[j]
              /\ at[j] = Len(r)
           \/ /\ Len(t) # 1 \/ status[j] = "cancelled"
              /\ status'[j] = status[j] /\ at'[j] = at[j]
    <2>1. CASE Len(t) = 1 /\ status[j] = "working"
      <3>1. Advance(j)
        BY <1>2, <2>1
      <3> QED
        BY <1>1, <2>1, <3>1, AdvanceIs
    <2>2. CASE ~(Len(t) = 1 /\ status[j] = "working")
      <3>1. status' = status /\ at' = at /\ trace' = trace
        BY <1>2, <2>2
      <3> QED
        BY <1>4, <2>2, <3>1 DEF Shapes
    <2> QED
      BY <2>1, <2>2
  <1>8. Apart(j)
    <2>1. Shapes'
      BY <1>2, <1>6, <1>7 DEF Shapes
    <2>2. \A i \in Jobs : i # j => Untouched(i)
      BY <1>2, <1>7 DEF Shapes, Untouched, dirVars
    <2> QED
      BY <1>2, <2>1, <2>2 DEF Apart
  <1>9. OnlyItsDirectory(j)
    BY <1>2, <1>4 DEF OnlyItsDirectory, Shapes
  <1> HIDE DEF p, t, c
  <1>10. Stage(j)'
    <2>1. at'[j] \in DOMAIN Script(request'[j])
      BY <1>1, <1>2, <1>7 DEF Stage
    <2>2. search' = search /\ status'[j] # "absent"
      BY <1>2, <1>4, <1>7 DEF dirVars
    <2>3. todo'[j] # <<>> => status'[j] = status[j] /\ at'[j] = at[j]
      BY <1>5, <1>6, <1>7
    <2>4. todo'[j] # <<>> => Op(j)' = Op(j)
      BY <1>2, <2>3 DEF Op
    <2> QED
      BY <1>4, <1>5, <2>1, <2>2, <2>3, <2>4 DEF Stage
  <1>11. PlannedInOrder(j)'
    <2>1. \/ /\ at'[j] = at[j]
             /\ todo'[j] # <<>> \/ status'[j] # "working"
          \/ at'[j] = at[j] + 1
      BY <1>4, <1>5, <1>6, <1>7
    <2> QED
      BY <1>1, <1>2, <2>1, PlanKept
  <1>12. Holds(j)'
    <2>1. InTheMiddle(p, Tail(t), FALSE, Filled(c, Head(t), j), j)
      BY <1>3, <1>4, Filling
    <2>2. planned'[j] = p
      BY <1>2 DEF p
    <2> QED
      BY <1>5, <2>1, <2>2 DEF Holds
  <1>13. Listed(j)'
    <2>1. CASE status'[j] = "completed"
      <3>1. at[j] = Len(r)
        BY <1>4, <1>7, <2>1
      <3>2. Op(j) = r[Len(r)]
        BY <3>1 DEF Op
      <3>3. listings[j] = <<>>
        BY <1>1, <1>4, <3>2 DEF Listed, WriteOps
      <3> QED
        BY <1>1, <1>2, <3>3 DEF Listed
    <2>2. CASE status'[j] # "completed"
      BY <1>1, <1>2, <2>2 DEF Listed
    <2> QED
      BY <2>1, <2>2
  <1> QED
    BY <1>8, <1>9, <1>10, <1>11, <1>12, <1>13 DEF JobInv

(* Failing in the middle. *)
LEMMA RaiseKeeps ==
    ASSUME Shapes, DirTypeOK, NEW j \in Jobs, JobInv(j), WriteRaises(j)
    PROVE  Apart(j) /\ contents' = contents /\ JobInv(j)'
  <1>1. Stage(j) /\ PlannedInOrder(j) /\ Holds(j) /\ Listed(j)
    BY DEF JobInv
  <1> DEFINE p == planned[j]
             t == todo[j]
             c == contents[Name(j)]
  <1>2. /\ t # <<>>
        /\ begun' = [begun EXCEPT ![j] = FALSE]
        /\ todo' = [todo EXCEPT ![j] = <<>>]
        /\ IF status[j] = "working" THEN End(j, "failed") ELSE UNCHANGED status
        /\ UNCHANGED <<dirVars, request, at, planned, contents, listings, trace>>
    BY DEF WriteRaises
  <1>3. /\ search[j] = "holding" /\ Name(j) \in Names
        /\ status[j] \in {"working", "cancelled"} /\ Op(j) \in WriteOps
        /\ p \in Seq(FileNames) /\ t \in Seq(FileNames)
        /\ InTheMiddle(p, t, begun[j], c, j) /\ begun[j] \in BOOLEAN
    BY <1>2, WriterIsInTheMiddle DEF Shapes
  <1>4. /\ status' \in [Jobs -> Statuses] /\ status'[j] \in {"failed", "cancelled"}
        /\ \A i \in Jobs : i # j => status'[i] = status[i]
    <2>1. CASE status[j] = "working"
      BY <1>2, <2>1 DEF End, Shapes, Statuses, Ended
    <2>2. CASE status[j] # "working"
      BY <1>2, <1>3, <2>2 DEF Shapes
    <2> QED
      BY <2>1, <2>2
  <1>5. begun'[j] = FALSE /\ todo'[j] = <<>> /\ Name(j)' = Name(j)
    BY <1>2 DEF Shapes, dirVars, Name
  <1>6. Apart(j)
    <2>1. Shapes'
      <3>1. <<>> \in Seq(FileNames)
        OBVIOUS
      <3>2. todo' \in [Jobs -> Seq(FileNames)] /\ begun' \in [Jobs -> BOOLEAN]
        BY <1>2, <3>1 DEF Shapes
      <3> QED
        BY <1>2, <1>4, <3>2 DEF Shapes
    <2>2. \A i \in Jobs : i # j => Untouched(i)
      BY <1>2, <1>4 DEF Shapes, Untouched, dirVars
    <2> QED
      BY <1>2, <2>1, <2>2 DEF Apart
  <1>7. Stage(j)'
    BY <1>1, <1>2, <1>3, <1>4, <1>5 DEF Stage, dirVars
  <1>8. PlannedInOrder(j)'
    BY <1>1, <1>2, <1>4, PlanKept
  <1>9. Holds(j)'
    <2>1. Abandoned(p, c, j)
      BY <1>2, <1>3, GivingUp
    <2>2. planned'[j] = p /\ contents'[Name(j)'] = c
      BY <1>2, <1>5
    <2> QED
      BY <1>4, <1>5, <2>1, <2>2 DEF Holds
  <1>10. Listed(j)'
    BY <1>1, <1>2, <1>4 DEF Listed
  <1> QED
    BY <1>2, <1>6, <1>7, <1>8, <1>9, <1>10 DEF JobInv

(* A job that lists has written all it set out to write. *)
LEMMA ListsAll ==
    ASSUME Shapes, DirTypeOK, NEW j \in Jobs, JobInv(j), search[j] = "holding",
           todo[j] = <<>>, status[j] \notin {"failed", "cancelled"}
    PROVE  /\ planned[j] \in Seq(FileNames)
           /\ InTheMiddle(planned[j], <<>>, FALSE, contents[Name(j)], j)
           /\ ArtifactNames(Name(j)) = UpTo(planned[j], Len(planned[j]))
           /\ \A e \in contents[Name(j)] : e.whole /\ e.by = j
  <1>1. Stage(j) /\ Holds(j)
    BY DEF JobInv
  <1>2. begun[j] = FALSE
    BY <1>1 DEF Stage, Shapes
  <1>3. InTheMiddle(planned[j], todo[j], begun[j], contents[Name(j)], j)
    BY <1>1 DEF Holds
  <1>4. InTheMiddle(planned[j], <<>>, FALSE, contents[Name(j)], j)
    BY <1>2, <1>3
  <1>5. planned[j] \in Seq(FileNames)
    BY DEF Shapes
  <1>6. ArtifactNames(Name(j)) = FilesOf(contents[Name(j)])
    BY DEF ArtifactNames, FilesOf
  <1> QED
    <2> DEFINE p == planned[j]
               c == contents[Name(j)]
    <2>1. p \in Seq(FileNames) /\ InTheMiddle(p, <<>>, FALSE, c, j)
      BY <1>4, <1>5
    <2> HIDE DEF p, c
    <2>2. /\ FilesOf(c) = UpTo(p, Len(p))
          /\ \A e \in c : e.whole /\ e.by = j
      <3>1. FilesOf(c) = UpTo(p, Len(p))
        BY <2>1, AllThere
      <3>2. \A e \in c : e.by = j
        BY <2>1, AllThere
      <3>3. \A e \in c : e.whole
        BY <2>1, AllThere
      <3> QED
        BY <3>1, <3>2, <3>3
    <2> QED
      BY <1>4, <1>5, <1>6, <2>2 DEF p, c

(* Listing the directory. *)
LEMMA ListKeeps ==
    ASSUME Shapes, DirTypeOK, NEW j \in Jobs, JobInv(j), ListArtifacts(j)
    PROVE  Apart(j) /\ contents' = contents /\ JobInv(j)'
  <1>1. Stage(j) /\ PlannedInOrder(j) /\ Holds(j) /\ Listed(j)
    BY DEF JobInv
  <1> DEFINE p == planned[j]
             l == listings[j]
             r == Script(request[j])
             new == [upto |-> Len(p), names |-> ArtifactNames(Name(j))]
  <1>2. /\ status[j] = "working" /\ search[j] = "holding" /\ Op(j) = "list"
        /\ listings' = [listings EXCEPT ![j] = Append(l, new)]
        /\ Advance(j)
        /\ UNCHANGED <<dirVars, request, todo, begun, planned, contents>>
    BY DEF ListArtifacts, Working
  <1>3. todo[j] = <<>>
    BY <1>1, <1>2 DEF Stage, WriteOps
  <1>4. /\ p \in Seq(FileNames)
        /\ ArtifactNames(Name(j)) = UpTo(p, Len(p))
    BY <1>2, <1>3, ListsAll
  <1>5. Len(p) \in Nat /\ UpTo(p, Len(p)) \subseteq FileNames
    BY <1>4 DEF UpTo
  <1>6. new \in Listing /\ l \in Seq(Listing)
    BY <1>4, <1>5 DEF Listing, Shapes
  <1>7. new.upto = Len(p) /\ new.names = UpTo(p, Len(p))
    BY <1>4
  <1> HIDE DEF new, l, p
  <1>8. /\ Append(l, new) \in Seq(Listing)
        /\ Len(Append(l, new)) = Len(l) + 1 /\ Len(l) \in Nat
        /\ \A i \in 1 .. Len(l) : Append(l, new)[i] = l[i]
        /\ Append(l, new)[Len(l) + 1] = new
        /\ DOMAIN Append(l, new) = 1 .. Len(l) + 1
        /\ DOMAIN l = 1 .. Len(l)
    BY <1>6
  <1>9. listings'[j] = Append(l, new) /\ listings' \in [Jobs -> Seq(Listing)]
    BY <1>2, <1>8 DEF Shapes
  <1>10. /\ status' \in [Jobs -> Statuses] /\ at' \in [Jobs -> Nat]
         /\ trace' \in [Jobs -> {"off", "open", "flushed"}]
         /\ \A i \in Jobs : i # j =>
               status'[i] = status[i] /\ at'[i] = at[i] /\ trace'[i] = trace[i]
         /\ \/ /\ status'[j] = "working" /\ at'[j] = at[j] + 1
               /\ at'[j] \in DOMAIN r
            \/ /\ status'[j] = "completed" /\ at'[j] = at[j]
               /\ at[j] = Len(r)
    BY <1>1, <1>2, AdvanceIs
  <1>11. Apart(j)
    <2>1. Shapes'
      BY <1>2, <1>9, <1>10 DEF Shapes
    <2>2. \A i \in Jobs : i # j => Untouched(i)
      BY <1>2, <1>10 DEF Shapes, Untouched, dirVars
    <2> QED
      BY <1>2, <2>1, <2>2 DEF Apart
  <1>12. Stage(j)'
    <2>1. at'[j] \in DOMAIN Script(request'[j])
      BY <1>1, <1>2, <1>10 DEF Stage
    <2> QED
      BY <1>1, <1>2, <1>3, <1>10, <2>1 DEF Stage, dirVars
  <1>13. PlannedInOrder(j)'
    BY <1>1, <1>2, <1>10, PlanKept
  <1>14. Holds(j)'
    <2>1. Name(j)' = Name(j)
      BY <1>2 DEF Name, dirVars
    <2>2. InTheMiddle(planned[j], todo[j], begun[j], contents[Name(j)], j)
      BY <1>1, <1>2 DEF Holds
    <2> QED
      BY <1>2, <2>1, <2>2 DEF Holds
  <1>15. Listed(j)'
    <2>1. ASSUME NEW i \in 1 .. Len(l) + 1
          PROVE  /\ Append(l, new)[i].upto \in 0 .. Len(p)
                 /\ Append(l, new)[i].names = UpTo(p, Append(l, new)[i].upto)
      <3>1. CASE i \in 1 .. Len(l)
        BY <1>1, <1>8, <3>1 DEF Listed, l, p
      <3>2. CASE i = Len(l) + 1
        BY <1>5, <1>7, <1>8, <3>2
      <3> QED
        BY <1>8, <3>1, <3>2
    <2>2. r[Len(r)] = "list"
      <3>1. r[at[j]] = "list" /\ at[j] \in DOMAIN r
        BY <1>1, <1>2 DEF Stage, Op
      <3> QED
        BY <3>1, ScriptOf DEF GoodScript
    <2>3. Append(l, new)[Len(Append(l, new))].upto = Len(p)
      BY <1>7, <1>8
    <2>4. planned'[j] = p /\ request'[j] = request[j]
      BY <1>2 DEF p
    <2> QED
      BY <1>8, <1>9, <2>1, <2>2, <2>3, <2>4 DEF Listed
  <1> QED
    BY <1>2, <1>11, <1>12, <1>13, <1>14, <1>15 DEF JobInv

-----------------------------------------------------------------------------
(* Any step. *)

(* A step of a job leaves the directories of the others alone.             *)
LEMMA OthersKeepTheirs ==
    ASSUME DirectoriesAreNotShared, DirTypeOK, NEW j \in Jobs, NEW i \in Jobs, i # j,
           Untouched(i), OnlyItsDirectory(j), search[i] = "holding"
    PROVE  Name(i)' = Name(i) /\ contents'[Name(i)] = contents[Name(i)]
  <1>1. Name(i)' = Name(i) /\ Name(i) \in Names
    BY DEF Untouched, Name, Names, DirTypeOK
  <1>2. ~(search[j] = "holding" /\ Name(i) = Name(j))
    BY DEF DirectoriesAreNotShared
  <1> QED
    BY <1>1, <1>2 DEF OnlyItsDirectory

(* What is known of the other jobs is still true. *)
LEMMA OthersKeep ==
    ASSUME DirectoriesAreNotShared, DirTypeOK, NEW j \in Jobs, NEW i \in Jobs, i # j,
           Apart(j), OnlyItsDirectory(j), JobInv(i)
    PROVE  JobInv(i)'
  <1>1. Stage(i) /\ PlannedInOrder(i) /\ Holds(i) /\ Listed(i)
    BY DEF JobInv
  <1>2. Untouched(i)
    BY DEF Apart
  <1>3. Stage(i)'
    BY <1>1, <1>2 DEF Untouched, Stage, Op
  <1>4. PlannedInOrder(i)'
    BY <1>1, <1>2 DEF Untouched, PlannedInOrder
  <1>5. Holds(i)'
    <2> SUFFICES ASSUME search'[i] = "holding"
                 PROVE  \/ InTheMiddle(planned'[i], todo'[i], begun'[i],
                                       contents'[Name(i)'], i)
                        \/ /\ todo'[i] = <<>>
                           /\ status'[i] \in {"failed", "cancelled"}
                           /\ Abandoned(planned'[i], contents'[Name(i)'], i)
      BY DEF Holds
    <2>1. search[i] = "holding"
      BY <1>2 DEF Untouched
    <2>2. contents'[Name(i)'] = contents[Name(i)]
      BY <1>2, <2>1, OthersKeepTheirs
    <2> QED
      BY <1>1, <1>2, <2>1, <2>2 DEF Untouched, Holds
  <1>6. Listed(i)'
    BY <1>1, <1>2 DEF Untouched, Listed
  <1> QED
    BY <1>3, <1>4, <1>5, <1>6 DEF JobInv

(* Every step keeps what is known of the job that takes it. *)
LEMMA MoverKeepsFiles ==
    ASSUME Shapes, DirTypeOK, NewIsEmpty, NEW j \in Jobs, JobInv(j), StepOf(j)
    PROVE  Apart(j) /\ OnlyItsDirectory(j) /\ JobInv(j)'
  <1>1. Stage(j)
    BY DEF JobInv
  <1>2. CASE SearchOnly(j)
    BY <1>2, SearchIsApart, SearchKeeps DEF fileVars, OnlyItsDirectory
  <1>3. CASE WorkStep(j)
    BY <1>1, <1>3, WorkIsApart, WorkKeeps DEF fileVars, OnlyItsDirectory
  <1>4. CASE StartWriting(j)
    BY <1>4, StartKeeps DEF StartWriting, OnlyItsDirectory
  <1>5. CASE OpenFile(j)
    BY <1>5, OpenKeeps
  <1>6. CASE FillFile(j)
    BY <1>6, FillKeeps
  <1>7. CASE WriteRaises(j)
    BY <1>7, RaiseKeeps DEF OnlyItsDirectory
  <1>8. CASE ListArtifacts(j)
    BY <1>8, ListKeeps DEF OnlyItsDirectory
  <1> QED
    BY <1>2, <1>3, <1>4, <1>5, <1>6, <1>7, <1>8
       DEF StepOf, JobStep, SearchOnly, WorkStep

(* A directory that nobody has made stays empty: only its owner writes in  *)
(* a directory.                                                            *)
LEMMA NewStaysEmpty ==
    ASSUME DirectoriesAreNotShared, NewIsEmpty, NEW j \in Jobs,
           OnlyItsDirectory(j), taken \subseteq taken'
    PROVE  NewIsEmpty'
  <1> SUFFICES ASSUME NEW n \in Names, n \notin taken'
               PROVE  contents'[n] = {}
    BY DEF NewIsEmpty, Names
  <1>1. n \notin taken /\ contents[n] = {}
    BY DEF NewIsEmpty
  <1>2. ~(search[j] = "holding" /\ n = Name(j))
    BY <1>1 DEF DirectoriesAreNotShared
  <1> QED
    BY <1>1, <1>2 DEF OnlyItsDirectory

(* No directory is removed. *)
LEMMA TakenStays ==
    ASSUME [DirNext]_dirVars
    PROVE  taken \subseteq taken'
  BY TakenGrows DEF DirNext, DirStep, dirVars

(* The invariant is inductive. *)
LEMMA FilesInvInductive == FilesInv /\ [ArtifactsNext]_vars => FilesInv'
  <1> SUFFICES ASSUME FilesInv, [ArtifactsNext]_vars PROVE FilesInv'
    OBVIOUS
  <1>1. /\ DirInv /\ Shapes /\ NewIsEmpty /\ \A j \in Jobs : JobInv(j)
        /\ DirTypeOK /\ DirectoriesAreNotShared
    BY DEF FilesInv, DirInv
  <1>2. DirInv' /\ taken \subseteq taken'
    BY <1>1, StepSearches, DirInvInductive, TakenStays
  <1>3. CASE ArtifactsNext
    <2>1. PICK j \in Jobs : StepOf(j)
      BY <1>3 DEF ArtifactsNext, StepOf
    <2>2. Apart(j) /\ OnlyItsDirectory(j) /\ JobInv(j)'
      BY <1>1, <2>1, MoverKeepsFiles
    <2>3. \A i \in Jobs : JobInv(i)'
      BY <1>1, <2>2, OthersKeep
    <2>4. NewIsEmpty'
      BY <1>1, <1>2, <2>2, NewStaysEmpty
    <2> QED
      BY <1>2, <2>2, <2>3, <2>4 DEF FilesInv, Apart
  <1>4. CASE UNCHANGED vars
    <2>1. Shapes' /\ NewIsEmpty'
      BY <1>1, <1>4 DEF vars, jobVars, fileVars, dirVars, Shapes, NewIsEmpty
    <2>2. ASSUME NEW j \in Jobs
          PROVE  JobInv(j)'
      <3>1. Stage(j) /\ PlannedInOrder(j) /\ Holds(j) /\ Listed(j)
        BY <1>1 DEF JobInv
      <3>2. Stage(j)'
        BY <1>4, <3>1 DEF vars, jobVars, fileVars, dirVars, Stage, Op
      <3>3. PlannedInOrder(j)'
        BY <1>4, <3>1 DEF vars, jobVars, fileVars, dirVars, PlannedInOrder
      <3>4. Holds(j)'
        BY <1>4, <3>1 DEF vars, jobVars, fileVars, dirVars, Holds, Name
      <3>5. Listed(j)'
        BY <1>4, <3>1 DEF vars, jobVars, fileVars, dirVars, Listed
      <3> QED
        BY <3>2, <3>3, <3>4, <3>5 DEF JobInv
    <2> QED
      BY <1>2, <2>1, <2>2 DEF FilesInv
  <1> QED
    BY <1>3, <1>4

(* Every behaviour of the jobs keeps the invariant. *)
LEMMA FilesInvAlways == ArtifactsSpec => []FilesInv
  BY FilesInvInitially, FilesInvInductive, PTL DEF ArtifactsSpec

(* The type of a job's state; only the orphan of a cancelled run writes    *)
(* after the end.                                                          *)
THEOREM ArtifactsTypeCorrect == ArtifactsSpec => []ArtifactsTypeOK
  <1>1. FilesInv => ArtifactsTypeOK
    <2> SUFFICES ASSUME FilesInv PROVE ArtifactsTypeOK
      OBVIOUS
    <2>1. DirTypeOK /\ Shapes /\ \A j \in Jobs : Stage(j)
      BY DEF FilesInv, DirInv, JobInv
    <2>2. ASSUME NEW j \in Jobs
          PROVE  /\ request[j] \in Requests
                 /\ at[j] \in DOMAIN Script(request[j])
                 /\ begun[j] => todo[j] # <<>>
                 /\ todo[j] # <<>> => status[j] \in {"working", "cancelled"}
                 /\ status[j] = "absent" <=> search[j] = "idle"
      BY <2>1 DEF Stage, Shapes
    <2> QED
      BY <2>1, <2>2 DEF ArtifactsTypeOK, Shapes, Statuses
  <1> QED
    BY <1>1, FilesInvAlways, PTL

(* What a result names is what the job has written, all of it and nothing  *)
(* else, and the last list of a completed job is complete, whatever jobs   *)
(* work beside it.                                                         *)
THEOREM ResultsListTheirOwnFiles == ArtifactsSpec => []ResultListsItsOwnFiles
  <1>1. FilesInv => ResultListsItsOwnFiles
    BY DEF FilesInv, JobInv, Listed, ResultListsItsOwnFiles, PlannedUpTo, UpTo
  <1> QED
    BY <1>1, FilesInvAlways, PTL

(* However a job ends and whatever writes on after it, its directory holds *)
(* a beginning of what it set out to write, its own, and whole but for the *)
(* last file; a completed job has left everything.                         *)
THEOREM EarlyEndsLeavePrefixes == ArtifactsSpec => []EarlyEndLeavesAPrefix
  <1>1. FilesInv => EarlyEndLeavesAPrefix
    <2> SUFFICES ASSUME FilesInv, NEW j \in Jobs, search[j] = "holding"
                 PROVE  LET there == contents[Name(j)]
                        IN  /\ \E k \in 0 .. Len(planned[j]) :
                                  /\ ArtifactNames(Name(j)) = PlannedUpTo(j, k)
                                  /\ \A e \in there : e.whole \/ e.file = planned[j][k]
                            /\ \A e \in there : e.by = j
                            /\ status[j] = "completed" =>
                                  /\ ArtifactNames(Name(j)) =
                                        PlannedUpTo(j, Len(planned[j]))
                                  /\ \A e \in there : e.whole
      BY DEF EarlyEndLeavesAPrefix
    <2> DEFINE p == planned[j]
               c == contents[Name(j)]
    <2>1. DirTypeOK /\ Shapes /\ JobInv(j) /\ Stage(j) /\ Holds(j)
      BY DEF FilesInv, DirInv, JobInv
    <2>2. /\ p \in Seq(FileNames) /\ todo[j] \in Seq(FileNames)
          /\ begun[j] \in BOOLEAN /\ (begun[j] => todo[j] # <<>>)
      BY <2>1 DEF Shapes, Stage
    <2>3. Abandoned(p, c, j)
      <3>1. CASE InTheMiddle(p, todo[j], begun[j], c, j)
        BY <2>2, <3>1, GivingUp
      <3>2. CASE ~InTheMiddle(p, todo[j], begun[j], c, j)
        BY <2>1, <3>2 DEF Holds
      <3> QED
        BY <3>1, <3>2
    <2>4. ArtifactNames(Name(j)) = FilesOf(c)
      BY DEF ArtifactNames, FilesOf
    <2>5. \A k : PlannedUpTo(j, k) = UpTo(p, k)
      BY DEF PlannedUpTo, UpTo
    <2>6. ASSUME status[j] = "completed"
          PROVE  /\ ArtifactNames(Name(j)) = UpTo(p, Len(p))
                 /\ \A e \in c : e.whole
      <3>1. todo[j] = <<>>
        BY <2>1, <2>6 DEF Stage
      <3>2. status[j] \notin {"failed", "cancelled"}
        BY <2>6
      <3> QED
        BY <2>1, <3>1, <3>2, ListsAll
    <2> HIDE DEF p, c
    <2>7. /\ \E k \in 0 .. Len(p) :
                /\ FilesOf(c) = UpTo(p, k)
                /\ \A e \in c : e.whole \/ e.file = p[k]
          /\ \A e \in c : e.by = j
      BY <2>2, <2>3, LeftBehind
    <2>8. \E k \in 0 .. Len(p) :
             /\ ArtifactNames(Name(j)) = PlannedUpTo(j, k)
             /\ \A e \in c : e.whole \/ e.file = p[k]
      BY <2>4, <2>5, <2>7
    <2>9. status[j] = "completed" =>
             /\ ArtifactNames(Name(j)) = PlannedUpTo(j, Len(p))
             /\ \A e \in c : e.whole
      BY <2>5, <2>6
    <2> QED
      BY <2>7, <2>8, <2>9 DEF p, c
  <1> QED
    BY <1>1, FilesInvAlways, PTL

-----------------------------------------------------------------------------
(* A directory is a log. *)

FilesBar ==
    [j \in Jobs |-> IF search[j] = "holding" THEN ArtifactNames(Name(j)) ELSE {}]
PublishedBar ==
    [j \in Jobs |-> [i \in DOMAIN listings[j] |-> listings[j][i].names]]
SealedBar == {j \in Jobs : status[j] \in Ended /\ todo[j] = <<>>}

(* What others have written, listed or sealed does not change. *)
LEMMA BarsOfOthers ==
    ASSUME DirectoriesAreNotShared, DirTypeOK, NEW j \in Jobs, NEW i \in Jobs, i # j,
           Apart(j), OnlyItsDirectory(j)
    PROVE  /\ FilesBar'[i] = FilesBar[i]
           /\ PublishedBar'[i] = PublishedBar[i]
           /\ i \in SealedBar' <=> i \in SealedBar
  <1>1. Untouched(i)
    BY DEF Apart
  <1>2. FilesBar'[i] = FilesBar[i]
    <2>1. CASE search[i] = "holding"
      <3>1. Name(i)' = Name(i) /\ contents'[Name(i)] = contents[Name(i)]
        BY <1>1, <2>1, OthersKeepTheirs
      <3>2. ArtifactNames(Name(i))' = ArtifactNames(Name(i))
        BY <3>1 DEF ArtifactNames
      <3> QED
        BY <1>1, <2>1, <3>2 DEF FilesBar, Untouched
    <2>2. CASE search[i] # "holding"
      BY <1>1, <2>2 DEF FilesBar, Untouched
    <2> QED
      BY <2>1, <2>2
  <1>3. PublishedBar'[i] = PublishedBar[i]
    BY <1>1 DEF PublishedBar, Untouched
  <1>4. i \in SealedBar' <=> i \in SealedBar
    BY <1>1 DEF SealedBar, Untouched
  <1> QED
    BY <1>2, <1>3, <1>4

(* Whoever takes a step is not sealed. *)
LEMMA SealedIsDone ==
    ASSUME NEW j \in Jobs, Stage(j), begun[j] \in BOOLEAN, StepOf(j)
    PROVE  j \notin SealedBar
  <1>1. CASE todo[j] # <<>>
    BY <1>1 DEF SealedBar
  <1>2. CASE todo[j] = <<>>
    <2>1. ~begun[j]
      BY <1>2 DEF Stage
    <2>2. status[j] \in {"absent", "working"}
      BY <1>2, <2>1 DEF StepOf, JobStep, Start, TakesDirectory, LooksFurther,
         GetsNoDirectory, MakeDirectory, TryNextSuffix, Refuse, SearchRaises, Prepared,
         PrepareRaises, Detected, DetectRaises, RunSyncRaises, GraphEnds, GraphRaises,
         StartWriting, OpenFile,
         FillFile, WriteRaises, ListArtifacts, Cancel, Working, Stage
    <2> QED
      BY <2>2 DEF SealedBar, Ended
  <1> QED
    BY <1>1, <1>2

(* What a step does to what its own job has written and listed: it opens   *)
(* a new file, or lists what is there, or does neither.                    *)
LEMMA BarsOfMover ==
    ASSUME Shapes, DirTypeOK, NewIsEmpty, NEW j \in Jobs, JobInv(j), StepOf(j)
    PROVE  \/ /\ FilesBar'[j] = FilesBar[j] /\ PublishedBar'[j] = PublishedBar[j]
           \/ /\ \E f \in FileNames \ FilesBar[j] : FilesBar'[j] = FilesBar[j] \cup {f}
              /\ PublishedBar'[j] = PublishedBar[j]
           \/ /\ FilesBar'[j] = FilesBar[j]
              /\ PublishedBar'[j] = Append(PublishedBar[j], FilesBar[j])
  <1>1. Stage(j)
    BY DEF JobInv
  <1>2. CASE SearchOnly(j)
    <2>1. UNCHANGED fileVars
      BY <1>2, SearchIsApart
    <2>2. PublishedBar'[j] = PublishedBar[j]
      BY <2>1 DEF fileVars, PublishedBar
    <2>3. search[j] # "holding"
      BY <1>2 DEF SearchOnly, Start, StartSearch, TakesDirectory, MakeDirectory,
         LooksFurther, TryNextSuffix, GetsNoDirectory, Refuse, SearchRaises
    <2>4. CASE search'[j] = "holding"
      <3>1. MakeDirectory(j)
        BY <1>2, <2>3, <2>4 DEF SearchOnly, Start, StartSearch, TakesDirectory,
           LooksFurther, TryNextSuffix, GetsNoDirectory, Refuse, SearchRaises, DirTypeOK
      <3>2. Name(j)' = Name(j) /\ Name(j) \notin taken /\ Name(j) \in Names
        BY <3>1 DEF MakeDirectory, Name, DirTypeOK, Names
      <3>3. contents'[Name(j)] = {}
        BY <2>1, <3>2 DEF NewIsEmpty, fileVars
      <3>4. ArtifactNames(Name(j))' = {}
        BY <3>2, <3>3 DEF ArtifactNames
      <3> QED
        BY <2>2, <2>3, <2>4, <3>4 DEF FilesBar
    <2>5. CASE search'[j] # "holding"
      BY <2>2, <2>3, <2>5 DEF FilesBar
    <2> QED
      BY <2>4, <2>5
  <1>3. CASE \/ WorkStep(j) \/ StartWriting(j) \/ WriteRaises(j)
    <2>1. UNCHANGED <<dirVars, contents, listings>>
      BY <1>1, <1>3, WorkIsApart DEF StartWriting, WriteRaises, fileVars
    <2> QED
      BY <2>1 DEF dirVars, FilesBar, PublishedBar, ArtifactNames, Name
  <1>4. CASE OpenFile(j)
    <2> DEFINE c == contents[Name(j)]
               h == Head(todo[j])
    <2>1. /\ todo[j] # <<>> /\ begun[j] = FALSE
          /\ contents' = [contents EXCEPT ![Name(j)] = Opened(c, h, j)]
          /\ UNCHANGED <<dirVars, todo, planned, listings>>
      BY <1>4 DEF OpenFile, Opened, Shapes
    <2>2. /\ search[j] = "holding" /\ Name(j) \in Names
          /\ planned[j] \in Seq(FileNames) /\ todo[j] \in Seq(FileNames)
          /\ InTheMiddle(planned[j], todo[j], FALSE, c, j) /\ NoTwice(planned[j])
      BY <2>1, WriterIsInTheMiddle
    <2>3. /\ h \notin FilesOf(c)
          /\ FilesOf(Opened(c, h, j)) = FilesOf(c) \cup {h}
      <3> DEFINE p == planned[j]
                 t == todo[j]
      <3>1. /\ p \in Seq(FileNames) /\ t \in Seq(FileNames)
            /\ InTheMiddle(p, t, FALSE, c, j) /\ t # <<>> /\ NoTwice(p)
        BY <2>1, <2>2
      <3> HIDE DEF p, t, c
      <3>2. /\ Head(t) \notin FilesOf(c)
            /\ FilesOf(Opened(c, Head(t), j)) = FilesOf(c) \cup {Head(t)}
        BY <3>1, Opening
      <3> QED
        BY <3>2 DEF t
    <2>4. h \in FileNames
      BY <2>1, <2>2
    <2>5. FilesBar[j] = FilesOf(c) /\ PublishedBar'[j] = PublishedBar[j]
      BY <2>1, <2>2 DEF FilesBar, PublishedBar, ArtifactNames, FilesOf
    <2>6. contents'[Name(j)'] = Opened(c, h, j) /\ search'[j] = "holding"
      BY <2>1, <2>2 DEF Shapes, Name, dirVars
    <2>7. FilesBar'[j] = FilesOf(Opened(c, h, j))
      BY <2>6 DEF FilesBar, ArtifactNames, FilesOf
    <2> QED
      BY <2>3, <2>4, <2>5, <2>7
  <1>5. CASE FillFile(j)
    <2> DEFINE c == contents[Name(j)]
               h == Head(todo[j])
    <2>1. /\ begun[j] = TRUE
          /\ contents' = [contents EXCEPT ![Name(j)] = Filled(c, h, j)]
          /\ UNCHANGED <<dirVars, planned, listings>>
      BY <1>5 DEF FillFile, Filled, Shapes
    <2>2. todo[j] # <<>>
      BY <1>1, <2>1 DEF Stage
    <2>3. /\ search[j] = "holding" /\ Name(j) \in Names
          /\ planned[j] \in Seq(FileNames) /\ todo[j] \in Seq(FileNames)
          /\ InTheMiddle(planned[j], todo[j], TRUE, c, j) /\ NoTwice(planned[j])
      BY <2>1, <2>2, WriterIsInTheMiddle
    <2>4. FilesOf(Filled(c, h, j)) = FilesOf(c)
      <3> DEFINE p == planned[j]
                 t == todo[j]
      <3>1. /\ p \in Seq(FileNames) /\ t \in Seq(FileNames)
            /\ InTheMiddle(p, t, TRUE, c, j) /\ t # <<>> /\ NoTwice(p)
        BY <2>2, <2>3
      <3> HIDE DEF p, t, c
      <3>2. SameFiles(Filled(c, Head(t), j), c)
        BY <3>1, Filling
      <3> QED
        BY <3>2 DEF t, SameFiles
    <2>5. FilesBar[j] = FilesOf(c) /\ PublishedBar'[j] = PublishedBar[j]
      BY <2>1, <2>3 DEF FilesBar, PublishedBar, ArtifactNames, FilesOf
    <2>6. contents'[Name(j)'] = Filled(c, h, j) /\ search'[j] = "holding"
      BY <2>1, <2>3 DEF Shapes, Name, dirVars
    <2>7. FilesBar'[j] = FilesOf(Filled(c, h, j))
      BY <2>6 DEF FilesBar, ArtifactNames, FilesOf
    <2> QED
      BY <2>4, <2>5, <2>7
  <1>6. CASE ListArtifacts(j)
    <2> DEFINE l == listings[j]
               new == [upto |-> Len(planned[j]), names |-> ArtifactNames(Name(j))]
               names(s) == [i \in DOMAIN s |-> s[i].names]
    <2>1. /\ search[j] = "holding"
          /\ listings' = [listings EXCEPT ![j] = Append(l, new)]
          /\ UNCHANGED <<dirVars, contents>>
      BY <1>6 DEF ListArtifacts, Working
    <2>2. FilesBar'[j] = FilesBar[j] /\ FilesBar[j] = ArtifactNames(Name(j))
      BY <2>1 DEF dirVars, FilesBar, ArtifactNames, Name
    <2>3. new.names = ArtifactNames(Name(j))
      OBVIOUS
    <2>4. PublishedBar[j] = names(l) /\ l \in Seq(Listing)
      BY DEF PublishedBar, Shapes
    <2>5. PublishedBar'[j] = names(Append(l, new))
      BY <2>1 DEF PublishedBar, Shapes
    <2> HIDE DEF l, new
    <2>6. names(Append(l, new)) = Append(names(l), new.names)
      <3>1. Len(l) \in Nat /\ DOMAIN l = 1 .. Len(l)
        BY <2>4
      <3> DEFINE n == Len(l)
      <3>2. /\ DOMAIN Append(l, new) = 1 .. n + 1
            /\ \A i \in 1 .. n : Append(l, new)[i] = l[i]
            /\ Append(l, new)[n + 1] = new
        BY <2>4
      <3>3. Append(names(l), new.names) =
               [i \in 1 .. n + 1 |-> IF i = n + 1 THEN new.names ELSE names(l)[i]]
        <4>1. names(l) = [i \in 1 .. n |-> l[i].names]
          BY <3>1
        <4>2. names(l) \in Seq({l[i].names : i \in 1 .. n}) /\ Len(names(l)) = n
          <5>1. names(l) \in [1 .. n -> {l[i].names : i \in 1 .. n}]
            BY <4>1
          <5> QED
            BY <3>1, <5>1, FunctionIsSequence
        <4> HIDE DEF n
        <4> QED
          BY <4>2
      <3> HIDE DEF n
      <3>4. n \in Nat
        BY <3>1 DEF n
      <3>5. \A i \in 1 .. n + 1 :
               Append(l, new)[i].names =
                  IF i = n + 1 THEN new.names ELSE names(l)[i]
        <4> TAKE i \in 1 .. n + 1
        <4>1. CASE i = n + 1
          BY <3>2, <4>1
        <4>2. CASE i # n + 1
          <5>1. i \in 1 .. n
            BY <3>4, <4>2
          <5> QED
            BY <3>1, <3>2, <4>2, <5>1 DEF n
        <4> QED
          BY <4>1, <4>2
      <3> QED
        BY <3>2, <3>3, <3>5
    <2> QED
      BY <2>2, <2>3, <2>4, <2>5, <2>6
  <1> QED
    BY <1>2, <1>3, <1>4, <1>5, <1>6
       DEF StepOf, JobStep, SearchOnly, WorkStep

(* Every step is a step of the log or leaves it alone. *)
LEMMA StepLogs ==
    ASSUME FilesInv, [ArtifactsNext]_vars
    PROVE  [Log!LogNext]_(Log!logVars)
  <1> DEFINE F == FilesBar
             P == PublishedBar
             S == SealedBar
  <1>1. CASE UNCHANGED vars
    BY <1>1 DEF vars, jobVars, fileVars, dirVars, Log!logVars, ArtifactNames, Name
  <1>2. CASE ArtifactsNext
    <2>1. PICK j \in Jobs : StepOf(j)
      BY <1>2 DEF ArtifactsNext, StepOf
    <2>2. /\ Shapes /\ NewIsEmpty /\ JobInv(j) /\ Stage(j)
          /\ DirTypeOK /\ DirectoriesAreNotShared /\ begun[j] \in BOOLEAN
      BY DEF FilesInv, DirInv, JobInv, Shapes
    <2>3. Apart(j) /\ OnlyItsDirectory(j)
      BY <2>1, <2>2, MoverKeepsFiles
    <2>4. \A i \in Jobs : i # j =>
             F'[i] = F[i] /\ P'[i] = P[i] /\ (i \in S' <=> i \in S)
      BY <2>2, <2>3, BarsOfOthers
    <2>5. j \notin S
      BY <2>1, <2>2, SealedIsDone
    <2>6. /\ DOMAIN F = Jobs /\ DOMAIN F' = Jobs /\ DOMAIN P = Jobs /\ DOMAIN P' = Jobs
          /\ S \subseteq Jobs /\ S' \subseteq Jobs
          /\ F = [i \in Jobs |-> F[i]] /\ F' = [i \in Jobs |-> F'[i]]
          /\ P = [i \in Jobs |-> P[i]] /\ P' = [i \in Jobs |-> P'[i]]
      BY DEF FilesBar, PublishedBar, SealedBar
    <2>7. \/ F'[j] = F[j] /\ P'[j] = P[j]
          \/ (\E f \in FileNames \ F[j] : F'[j] = F[j] \cup {f}) /\ P'[j] = P[j]
          \/ F'[j] = F[j] /\ P'[j] = Append(P[j], F[j])
      BY <2>1, <2>2, BarsOfMover
    <2> HIDE DEF F, P, S
    <2>8. S' = S \/ S' = S \cup {j}
      <3>1. S \subseteq Jobs /\ S' \subseteq Jobs
        BY <2>6
      <3>2. \A i \in Jobs : i # j => (i \in S' <=> i \in S)
        BY <2>4
      <3>3. CASE j \in S'
        BY <3>1, <3>2, <3>3
      <3>4. CASE j \notin S'
        BY <2>5, <3>1, <3>2, <3>4
      <3> QED
        BY <3>3, <3>4
    <2>9. CASE F'[j] = F[j] /\ P'[j] = P[j]
      <3>1. F' = F /\ P' = P
        BY <2>4, <2>6, <2>9
      <3>2. CASE S' = S
        BY <3>1, <3>2 DEF F, P, S, FilesBar, PublishedBar, SealedBar, Log!logVars
      <3>3. CASE S' = S \cup {j}
        <4>1. Log!Stop(j)
          BY <2>5, <3>1, <3>3
             DEF F, P, S, FilesBar, PublishedBar, SealedBar, Log!Stop
        <4> QED
          BY <4>1 DEF Log!LogNext
      <3> QED
        BY <2>8, <3>2, <3>3
    <2>10. CASE (\E f \in FileNames \ F[j] : F'[j] = F[j] \cup {f}) /\ P'[j] = P[j]
      <3>1. P' = P
        BY <2>4, <2>6, <2>10
      <3>2. PICK f \in FileNames \ F[j] : F'[j] = F[j] \cup {f}
        BY <2>10
      <3>3. F' = [F EXCEPT ![j] = F[j] \cup {f}]
        BY <2>4, <2>6, <3>2
      <3>4. Log!WriteOne(j)
        BY <2>5, <2>8, <3>1, <3>2, <3>3
           DEF F, P, S, FilesBar, PublishedBar, SealedBar, Log!WriteOne, Log!MayBeDone
      <3> QED
        BY <3>4 DEF Log!LogNext
    <2>11. CASE F'[j] = F[j] /\ P'[j] = Append(P[j], F[j])
      <3>1. F' = F
        BY <2>4, <2>6, <2>11
      <3>2. P' = [P EXCEPT ![j] = Append(P[j], F[j])]
        BY <2>4, <2>6, <2>11
      <3>3. Log!Publish(j)
        BY <2>5, <2>8, <3>1, <3>2
           DEF F, P, S, FilesBar, PublishedBar, SealedBar, Log!Publish, Log!MayBeDone
      <3> QED
        BY <3>3 DEF Log!LogNext
    <2> QED
      BY <2>7, <2>9, <2>10, <2>11
  <1> QED
    BY <1>1, <1>2

(* A directory is a log that is sealed when its last writer is done: each  *)
(* file appears once and stays, what is published is what is there, and    *)
(* nothing changes after the seal, with the threads that outlive a         *)
(* cancelled run.                                                          *)
THEOREM DirectoriesAreLogs == ArtifactsSpec => ImplementsArtifactLog
  <1>1. ArtifactsInit => Log!LogInit
    <2> SUFFICES ASSUME ArtifactsInit PROVE Log!LogInit
      OBVIOUS
    <2>1. \A j \in Jobs : search[j] = "idle" /\ listings[j] = <<>> /\ status[j] = "absent"
      BY DEF ArtifactsInit, DirInit
    <2>2. \A j \in Jobs : [i \in DOMAIN listings[j] |-> listings[j][i].names] = <<>>
      <3> TAKE j \in Jobs
      <3>1. listings[j] = <<>> /\ DOMAIN <<>> = {}
        BY <2>1
      <3> QED
        BY <3>1
    <2> QED
      BY <2>1, <2>2 DEF Log!LogInit, Ended
  <1> QED
    BY <1>1, StepLogs, FilesInvAlways, PTL DEF ArtifactsSpec, ImplementsArtifactLog,
       Log!LogSpec
=============================================================================
