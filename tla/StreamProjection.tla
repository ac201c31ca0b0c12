--------------------------- MODULE StreamProjection ---------------------------
(***************************************************************************)
(* What a client is shown of a run: the projections of                     *)
(* public_projection.py and _project_state_progress of execution.py, which *)
(* is called once for every state a graph produces.  Both graphs are       *)
(* streamed through it; each gives it a view of its state.                 *)
(***************************************************************************)
EXTENDS AuthorityProvenance, CheckerComparison, Sequences, TLAPS

Phase(p) == [kind |-> "phase", phase |-> p]
Text(turn) == [kind |-> "text", turn |-> turn]

(* _authority_provenance_from_state: the record, if there is one, over the *)
(* provenance of the history.                                              *)
ShownProvenance(record, provenance) ==
    IF record # NoCause THEN record.provenance ELSE provenance

(* project_cause, action_attempt_summary included *)
Cause(fired, record, provenance) ==
    LET shown == ShownProvenance(record, provenance)
    IN  [kind |-> "cause",
         misreader_skill_fired |-> fired,
         authority_provenance |-> shown,
         attempted |-> /\ shown # NoProvenance
                       /\ IF record # NoCause
                          THEN record.action_attempt # NoTarget
                          ELSE shown.action_attempt_turn # NoTurn]

(* project_checker: without an observation, the axis of the state. *)
Checker(observation, axis) ==
    [kind |-> "checker",
     checker_ran |-> observation.ran,
     checker_observed_bypass |-> observation.bypass,
     substituted |-> IF observation.ran THEN observation.substituted ELSE axis]

Explanation(status) == [kind |-> "explain", status |-> status]

Completed(outcome, artifact_names) ==
    [kind |-> "completed", observation_outcome |-> outcome,
     artifact_names |-> artifact_names]

-----------------------------------------------------------------------------
(* The stream: what it has yielded, the steps it has dealt with, and       *)
(* whether it has shown a checker.                                         *)

(* The plan phase is announced before the graph is asked for a state.      *)
NewStream == [events |-> <<Phase("plan")>>, emitted_step_indexes |-> {},
              checker_emitted |-> FALSE]

Emit(stream, latest, events) ==
    [stream EXCEPT !.events = @ \o events,
                   !.emitted_step_indexes = @ \cup {latest.step_index}]

(* Variant: a state is projected although its last step was dealt with. *)
NeverDealtWith(stream, latest) == FALSE

DealtWith(stream, latest) == latest.step_index \in stream.emitted_step_indexes

(* Variant: a check that did not run the checker is not shown. *)
HeldBackUnlessItRan(stream, view) ==
    ~view.checker.checker_ran \/ stream.checker_emitted

(* A check is shown when it has an outcome, and once per stream.           *)
CheckerIsHeldBack(stream, view) ==
    view.observation_outcome = "none" \/ stream.checker_emitted

(* _project_state_progress *)
ProjectStateProgress(stream, latest, view) ==
    CASE DealtWith(stream, latest) -> stream
      [] ~DealtWith(stream, latest) /\ latest.step_kind = "plan" ->
            Emit(stream, latest, <<>>)
      [] ~DealtWith(stream, latest) /\ latest.step_kind = "do" ->
            Emit(stream, latest,
                 <<Phase("do")>>
                 \o (IF view.response = NoTurn THEN <<>> ELSE <<Text(view.response)>>)
                 \o <<view.cause>>)
      [] ~DealtWith(stream, latest) /\ latest.step_kind = "check" ->
            IF CheckerIsHeldBack(stream, view) THEN stream
            ELSE [Emit(stream, latest, <<Phase("check"), view.checker>>)
                  EXCEPT !.checker_emitted = TRUE]
      [] ~DealtWith(stream, latest) /\ latest.step_kind = "explain" ->
            Emit(stream, latest,
                 IF view.self_explanation = "none" THEN <<>>
                 ELSE <<Phase("explain"), Explanation(view.self_explanation)>>)

-----------------------------------------------------------------------------
(* Where the events of one kind are in the stream. *)
Places(stream, kind) ==
    {i \in DOMAIN stream.events : stream.events[i].kind = kind}

(* e is the last event of its kind, or the only one. *)
IsTheLast(stream, e) ==
    \E i \in Places(stream, e.kind) :
        /\ stream.events[i] = e
        /\ \A j \in Places(stream, e.kind) : j <= i

IsTheOnly(stream, e) ==
    \E i \in DOMAIN stream.events :
        Places(stream, e.kind) = {i} /\ stream.events[i] = e

(* A stage that is due is shown by e and nothing else, one that is not due *)
(* is not shown.                                                           *)
ShownOnceIf(stream, due, e) ==
    IF due THEN IsTheOnly(stream, e) ELSE Places(stream, e.kind) = {}

(* The stages follow each other: the text, its cause, what the checker     *)
(* found, what the agent says about it, the end.                           *)
Rank == [text |-> 1, cause |-> 2, checker |-> 3, explain |-> 4, completed |-> 5]

Precedes(e, f) == e.kind # "phase" /\ f.kind # "phase" => Rank[e.kind] < Rank[f.kind]

InCausalOrder(stream) ==
    \A i, j \in DOMAIN stream.events :
        i < j => Precedes(stream.events[i], stream.events[j])

-----------------------------------------------------------------------------
(* Lemmas: what a state that is projected adds to a stream, and what it    *)
(* leaves as it was.  Both streams' proofs cite them.                      *)

(* The streams whose events are of E. *)
StreamOf(E) ==
    [events : Seq(E), emitted_step_indexes : SUBSET Nat, checker_emitted : BOOLEAN]

(* The stream goes on with these events. *)
Adds(E, before, after, new) ==
    /\ before.events \in Seq(E) /\ new \in Seq(E)
    /\ after.events = before.events \o new

(* No event of this kind was added. *)
Keeps(before, after, kind) ==
    /\ Places(after, kind) = Places(before, kind)
    /\ \A i \in Places(before, kind) : after.events[i] = before.events[i]

(* A new step of plan is dealt with and not shown. *)
LEMMA PlanIsProjected ==
    ASSUME NEW stream, NEW latest, NEW view, ~DealtWith(stream, latest),
           latest.step_kind = "plan"
    PROVE  ProjectStateProgress(stream, latest, view) =
              Emit(stream, latest, <<>>)
  <1> DEFINE dealt == DealtWith(stream, latest)
             kind == latest.step_kind
             check == IF CheckerIsHeldBack(stream, view) THEN stream
                      ELSE [Emit(stream, latest, <<Phase("check"), view.checker>>)
                            EXCEPT !.checker_emitted = TRUE]
             plan == Emit(stream, latest, <<>>)
  <1>1. \E do, explain :
           ProjectStateProgress(stream, latest, view) =
              CASE dealt -> stream
                [] ~dealt /\ kind = "plan" -> plan
                [] ~dealt /\ kind = "do" -> do
                [] ~dealt /\ kind = "check" -> check
                [] ~dealt /\ kind = "explain" -> explain
    BY DEF ProjectStateProgress
  <1>2. ~dealt /\ kind = "plan"
    OBVIOUS
  <1> HIDE DEF dealt, kind, check, plan
  <1>3. ProjectStateProgress(stream, latest, view) = plan
    BY <1>1, <1>2
  <1> QED
    BY <1>3 DEF plan

(* A new step of do is shown with its text, if it has one, and its cause. *)
LEMMA DoIsProjected ==
    ASSUME NEW stream, NEW latest, NEW view, ~DealtWith(stream, latest),
           latest.step_kind = "do"
    PROVE  ProjectStateProgress(stream, latest, view) =
              Emit(stream, latest,
                   <<Phase("do")>>
                   \o (IF view.response = NoTurn THEN <<>>
                       ELSE <<Text(view.response)>>)
                   \o <<view.cause>>)
  <1> DEFINE dealt == DealtWith(stream, latest)
             kind == latest.step_kind
             check == IF CheckerIsHeldBack(stream, view) THEN stream
                      ELSE [Emit(stream, latest, <<Phase("check"), view.checker>>)
                            EXCEPT !.checker_emitted = TRUE]
             do == Emit(stream, latest,
                        <<Phase("do")>>
                        \o (IF view.response = NoTurn THEN <<>>
                            ELSE <<Text(view.response)>>)
                        \o <<view.cause>>)
  <1>1. \E plan, explain :
           ProjectStateProgress(stream, latest, view) =
              CASE dealt -> stream
                [] ~dealt /\ kind = "plan" -> plan
                [] ~dealt /\ kind = "do" -> do
                [] ~dealt /\ kind = "check" -> check
                [] ~dealt /\ kind = "explain" -> explain
    BY DEF ProjectStateProgress
  <1>2. ~dealt /\ kind = "do"
    OBVIOUS
  <1> HIDE DEF dealt, kind, check, do
  <1>3. ProjectStateProgress(stream, latest, view) = do
    BY <1>1, <1>2
  <1> QED
    BY <1>3 DEF do

(* A new check is shown unless it is held back. *)
LEMMA CheckIsProjected ==
    ASSUME NEW stream, NEW latest, NEW view, ~DealtWith(stream, latest),
           latest.step_kind = "check"
    PROVE  ProjectStateProgress(stream, latest, view) =
              IF CheckerIsHeldBack(stream, view) THEN stream
              ELSE [Emit(stream, latest, <<Phase("check"), view.checker>>)
                    EXCEPT !.checker_emitted = TRUE]
  <1> DEFINE dealt == DealtWith(stream, latest)
             kind == latest.step_kind
             check == IF CheckerIsHeldBack(stream, view) THEN stream
                      ELSE [Emit(stream, latest, <<Phase("check"), view.checker>>)
                            EXCEPT !.checker_emitted = TRUE]
  <1>1. \E plan, do, explain :
           ProjectStateProgress(stream, latest, view) =
              CASE dealt -> stream
                [] ~dealt /\ kind = "plan" -> plan
                [] ~dealt /\ kind = "do" -> do
                [] ~dealt /\ kind = "check" -> check
                [] ~dealt /\ kind = "explain" -> explain
    BY DEF ProjectStateProgress
  <1>2. ~dealt /\ kind = "check"
    OBVIOUS
  <1> HIDE DEF dealt, kind, check
  <1>3. ProjectStateProgress(stream, latest, view) = check
    BY <1>1, <1>2
  <1> QED
    BY <1>3 DEF check

(* An explanation is shown if there is one. *)
LEMMA ExplainIsProjected ==
    ASSUME NEW stream, NEW latest, NEW view, ~DealtWith(stream, latest),
           latest.step_kind = "explain",
           view.self_explanation # "none"
    PROVE  ProjectStateProgress(stream, latest, view) =
              Emit(stream, latest,
                   <<Phase("explain"), Explanation(view.self_explanation)>>)
  <1> DEFINE dealt == DealtWith(stream, latest)
             kind == latest.step_kind
             check == IF CheckerIsHeldBack(stream, view) THEN stream
                      ELSE [Emit(stream, latest, <<Phase("check"), view.checker>>)
                            EXCEPT !.checker_emitted = TRUE]
             explain == Emit(stream, latest,
                             IF view.self_explanation = "none" THEN <<>>
                             ELSE <<Phase("explain"), Explanation(view.self_explanation)>>)
  <1>1. \E plan, do :
           ProjectStateProgress(stream, latest, view) =
              CASE dealt -> stream
                [] ~dealt /\ kind = "plan" -> plan
                [] ~dealt /\ kind = "do" -> do
                [] ~dealt /\ kind = "check" -> check
                [] ~dealt /\ kind = "explain" -> explain
    BY DEF ProjectStateProgress
  <1>2. ~dealt /\ kind = "explain"
    OBVIOUS
  <1> HIDE DEF dealt, kind, check, explain
  <1>3. ProjectStateProgress(stream, latest, view) = explain
    BY <1>1, <1>2
  <1> QED
    BY <1>3 DEF explain

(* A step that was dealt with is not projected again. *)
LEMMA AlreadyDealtWith ==
    ASSUME NEW stream, NEW latest, NEW view, DealtWith(stream, latest)
    PROVE  ProjectStateProgress(stream, latest, view) = stream
  <1> DEFINE dealt == DealtWith(stream, latest)
             kind == latest.step_kind
             check == IF CheckerIsHeldBack(stream, view) THEN stream
                      ELSE [Emit(stream, latest, <<Phase("check"), view.checker>>)
                            EXCEPT !.checker_emitted = TRUE]
  <1>1. \E plan, do, explain :
           ProjectStateProgress(stream, latest, view) =
              CASE dealt -> stream
                [] ~dealt /\ kind = "plan" -> plan
                [] ~dealt /\ kind = "do" -> do
                [] ~dealt /\ kind = "check" -> check
                [] ~dealt /\ kind = "explain" -> explain
    BY DEF ProjectStateProgress
  <1>2. dealt
    OBVIOUS
  <1> HIDE DEF dealt, kind, check
  <1> QED
    BY <1>1, <1>2

(* A step that is emitted adds its events and nothing else. *)
LEMMA EmitAdds ==
    ASSUME NEW E, NEW stream \in StreamOf(E), NEW new \in Seq(E),
           NEW latest, latest.step_index \in Nat
    PROVE  LET after == Emit(stream, latest, new)
           IN  /\ after \in StreamOf(E)
               /\ Adds(E, stream, after, new)
               /\ after.emitted_step_indexes =
                     stream.emitted_step_indexes \cup {latest.step_index}
               /\ after.checker_emitted = stream.checker_emitted
  <1>1. stream.events \o new \in Seq(E)
    BY DEF StreamOf
  <1>2. stream.emitted_step_indexes \cup {latest.step_index} \in SUBSET Nat
    BY DEF StreamOf
  <1> QED
    BY <1>1, <1>2 DEF StreamOf, Emit, Adds

(* Where the events of a kind are after some were added. *)
LEMMA PlacesAfter ==
    ASSUME NEW E, NEW before, NEW after, NEW new, Adds(E, before, after, new),
           NEW kind
    PROVE  LET n == Len(before.events)
           IN  /\ n \in Nat /\ Len(new) \in Nat
               /\ DOMAIN before.events = 1..n
               /\ DOMAIN after.events = 1..(n + Len(new))
               /\ Places(before, kind) \subseteq 1..n
               /\ Places(after, kind) =
                     Places(before, kind)
                     \cup {i \in (n + 1)..(n + Len(new)) : new[i - n].kind = kind}
               /\ \A i \in 1..n : after.events[i] = before.events[i]
               /\ \A i \in 1..Len(new) : after.events[n + i] = new[i]
  <1> DEFINE n == Len(before.events)
             s == before.events
             t == after.events
  <1>1. s \in Seq(E) /\ new \in Seq(E) /\ t = s \o new /\ n = Len(s)
    BY DEF Adds
  <1> HIDE DEF s, t, n
  <1>2. /\ n \in Nat /\ Len(new) \in Nat
        /\ DOMAIN s = 1..n
        /\ DOMAIN t = 1..(n + Len(new))
        /\ \A i \in 1..n : t[i] = s[i]
        /\ \A i \in 1..Len(new) : t[n + i] = new[i]
    BY <1>1
  <1>3. \A i \in (n + 1)..(n + Len(new)) : t[i] = new[i - n]
    <2> TAKE i \in (n + 1)..(n + Len(new))
    <2>1. i - n \in 1..Len(new) /\ n + (i - n) = i
      BY <1>2
    <2> QED
      BY <1>2, <2>1
  <1>4. 1..(n + Len(new)) = 1..n \cup (n + 1)..(n + Len(new))
    BY <1>2
  <1>5. Places(before, kind) = {i \in 1..n : s[i].kind = kind}
    BY <1>2 DEF Places, s
  <1>6. Places(after, kind) = {i \in 1..(n + Len(new)) : t[i].kind = kind}
    BY <1>2 DEF Places, t
  <1>7. Places(after, kind) =
           Places(before, kind)
           \cup {i \in (n + 1)..(n + Len(new)) : new[i - n].kind = kind}
    BY <1>2, <1>3, <1>4, <1>5, <1>6
  <1>8. Places(before, kind) \subseteq 1..n
    BY <1>5
  <1> QED
    BY <1>2, <1>7, <1>8 DEF s, t, n

(* Events of other kinds leave those of this kind where they are. *)
LEMMA OthersKeep ==
    ASSUME NEW E, NEW before, NEW after, NEW new, Adds(E, before, after, new),
           NEW kind, \A i \in 1..Len(new) : new[i].kind # kind
    PROVE  Keeps(before, after, kind)
  <1> DEFINE n == Len(before.events)
  <1>1. /\ n \in Nat /\ Len(new) \in Nat
        /\ DOMAIN before.events = 1..n
        /\ DOMAIN after.events = 1..(n + Len(new))
        /\ Places(before, kind) \subseteq 1..n
        /\ Places(after, kind) =
              Places(before, kind)
              \cup {i \in (n + 1)..(n + Len(new)) : new[i - n].kind = kind}
        /\ \A i \in 1..n : after.events[i] = before.events[i]
        /\ \A i \in 1..Len(new) : after.events[n + i] = new[i]
    BY PlacesAfter
  <1> HIDE DEF n
  <1>2. \A i \in (n + 1)..(n + Len(new)) : i - n \in 1..Len(new)
    BY <1>1
  <1>3. Places(after, kind) = Places(before, kind)
    BY <1>1, <1>2
  <1> QED
    BY <1>1, <1>3 DEF Keeps

(* The last, or only, event of a kind remains it. *)
LEMMA LastStays ==
    ASSUME NEW before, NEW after, NEW e, Keeps(before, after, e.kind)
    PROVE  /\ IsTheLast(before, e) => IsTheLast(after, e)
           /\ IsTheOnly(before, e) => IsTheOnly(after, e)
  <1> DEFINE kind == e.kind
  <1>1. /\ Places(after, kind) = Places(before, kind)
        /\ \A i \in Places(before, kind) : after.events[i] = before.events[i]
    BY DEF Keeps
  <1>2. IsTheLast(before, e) => IsTheLast(after, e)
    BY <1>1 DEF IsTheLast
  <1>3. ASSUME IsTheOnly(before, e)
        PROVE  IsTheOnly(after, e)
    <2>1. PICK i \in DOMAIN before.events :
             Places(before, kind) = {i} /\ before.events[i] = e
      BY <1>3 DEF IsTheOnly
    <2>2. i \in DOMAIN after.events
      BY <1>1, <2>1 DEF Places
    <2> QED
      BY <1>1, <2>1, <2>2 DEF IsTheOnly
  <1> QED
    BY <1>2, <1>3

(* An event put last is the last of its kind, and the only one if there    *)
(* was none.                                                               *)
LEMMA AddedIsTheLast ==
    ASSUME NEW E, NEW before, NEW after, NEW new, Adds(E, before, after, new),
           NEW e, Len(new) > 0, new[Len(new)] = e,
           \A i \in 1..(Len(new) - 1) : new[i].kind # e.kind
    PROVE  LET n == Len(before.events) + Len(new)
           IN  /\ n \in DOMAIN after.events
               /\ after.events[n] = e
               /\ Places(after, e.kind) = Places(before, e.kind) \cup {n}
               /\ \A i \in Places(before, e.kind) :
                     i < n /\ after.events[i] = before.events[i]
               /\ IsTheLast(after, e)
               /\ Places(before, e.kind) = {} => IsTheOnly(after, e)
  <1> DEFINE m == Len(before.events)
             n == m + Len(new)
             kind == e.kind
  <1>1. /\ m \in Nat /\ Len(new) \in Nat
        /\ DOMAIN before.events = 1..m
        /\ DOMAIN after.events = 1..(m + Len(new))
        /\ Places(before, kind) \subseteq 1..m
        /\ Places(after, kind) =
              Places(before, kind)
              \cup {i \in (m + 1)..(m + Len(new)) : new[i - m].kind = kind}
        /\ \A i \in 1..m : after.events[i] = before.events[i]
        /\ \A i \in 1..Len(new) : after.events[m + i] = new[i]
    BY PlacesAfter
  <1>2. new[Len(new)].kind = kind /\ \A i \in 1..(Len(new) - 1) : new[i].kind # kind
    OBVIOUS
  <1> HIDE DEF m, kind
  <1>3. n \in DOMAIN after.events /\ after.events[n] = e
    <2>1. Len(new) \in 1..Len(new) /\ n \in 1..(m + Len(new))
      BY <1>1
    <2>2. after.events[m + Len(new)] = new[Len(new)]
      BY <1>1, <2>1
    <2> QED
      BY <1>1, <2>1, <2>2
  <1>4. {i \in (m + 1)..(m + Len(new)) : new[i - m].kind = kind} = {n}
    <2>1. \A i \in (m + 1)..(m + Len(new)) :
             i # n => i - m \in 1..(Len(new) - 1)
      BY <1>1
    <2>2. n \in (m + 1)..(m + Len(new)) /\ n - m = Len(new)
      BY <1>1
    <2> QED
      BY <1>2, <2>1, <2>2
  <1>5. Places(after, kind) = Places(before, kind) \cup {n}
    BY <1>1, <1>4
  <1>6. \A i \in Places(before, kind) : i < n /\ after.events[i] = before.events[i]
    BY <1>1
  <1>7. n \in Nat
    BY <1>1
  <1>8. \A j \in Places(after, kind) : j <= n
    <2>1. \A j \in Places(before, kind) : j \in Nat /\ j < n
      BY <1>1
    <2> HIDE DEF n
    <2> QED
      BY <1>5, <1>7, <2>1
  <1> HIDE DEF n
  <1>9. IsTheLast(after, e)
    BY <1>3, <1>5, <1>8 DEF IsTheLast, kind
  <1>10. Places(before, kind) = {} => IsTheOnly(after, e)
    BY <1>3, <1>5 DEF IsTheOnly, kind
  <1> QED
    BY <1>3, <1>5, <1>6, <1>9, <1>10 DEF n, m, kind

(* A stream that shows nothing new keeps what it has shown. *)
LEMMA NothingAddedKeeps ==
    ASSUME NEW before, NEW after, after.events = before.events, NEW kind
    PROVE  Keeps(before, after, kind)
  BY DEF Keeps, Places

(* Of the new events, e is at k and the only one of its kind. *)
NewAt(new, k, e) ==
    /\ k \in 1..Len(new)
    /\ new[k] = e
    /\ \A i \in 1..Len(new) : i # k => new[i].kind # e.kind

(* The first event of its kind is the only one. *)
LEMMA AddedIsTheOnly ==
    ASSUME NEW E, NEW before, NEW after, NEW new, Adds(E, before, after, new),
           NEW e, NEW k, NewAt(new, k, e), Places(before, e.kind) = {}
    PROVE  IsTheOnly(after, e)
  <1> DEFINE m == Len(before.events)
             kind == e.kind
  <1>1. /\ m \in Nat /\ Len(new) \in Nat
        /\ DOMAIN before.events = 1..m
        /\ DOMAIN after.events = 1..(m + Len(new))
        /\ Places(before, kind) \subseteq 1..m
        /\ Places(after, kind) =
              Places(before, kind)
              \cup {i \in (m + 1)..(m + Len(new)) : new[i - m].kind = kind}
        /\ \A i \in 1..m : after.events[i] = before.events[i]
        /\ \A i \in 1..Len(new) : after.events[m + i] = new[i]
    BY PlacesAfter
  <1>2. /\ k \in 1..Len(new) /\ new[k] = e /\ new[k].kind = kind
        /\ Places(before, kind) = {}
        /\ \A i \in 1..Len(new) : i # k => new[i].kind # kind
    BY DEF NewAt
  <1> HIDE DEF m, kind
  <1>3. {i \in (m + 1)..(m + Len(new)) : new[i - m].kind = kind} = {m + k}
    <2>1. \A i \in (m + 1)..(m + Len(new)) :
             i - m \in 1..Len(new) /\ (i # m + k => i - m # k)
      BY <1>1, <1>2
    <2>2. m + k \in (m + 1)..(m + Len(new)) /\ (m + k) - m = k
      BY <1>1, <1>2
    <2>3. new[(m + k) - m].kind = kind
      BY <1>2, <2>2, Zenon
    <2> QED
      BY <1>2, <2>1, <2>2, <2>3
  <1>4. m + k \in DOMAIN after.events /\ after.events[m + k] = e
    BY <1>1, <1>2
  <1>5. Places(after, kind) = {m + k}
    BY <1>1, <1>2, <1>3
  <1> QED
    BY <1>4, <1>5 DEF IsTheOnly, kind

(* The order is kept by events that are in order themselves and follow     *)
(* what was there.                                                         *)
LEMMA OrderIsKept ==
    ASSUME NEW E, NEW before, NEW after, NEW new, Adds(E, before, after, new),
           InCausalOrder(before),
           \A i, j \in 1..Len(new) : i < j => Precedes(new[i], new[j]),
           \A i \in DOMAIN before.events, j \in 1..Len(new) :
               Precedes(before.events[i], new[j])
    PROVE  InCausalOrder(after)
  <1> DEFINE m == Len(before.events)
  <1>1. /\ m \in Nat /\ Len(new) \in Nat
        /\ DOMAIN before.events = 1..m
        /\ DOMAIN after.events = 1..(m + Len(new))
        /\ \A i \in 1..m : after.events[i] = before.events[i]
        /\ \A i \in 1..Len(new) : after.events[m + i] = new[i]
    BY PlacesAfter
  <1>2. /\ \A i, j \in 1..m : i < j => Precedes(before.events[i], before.events[j])
        /\ \A i \in 1..m, j \in 1..Len(new) : Precedes(before.events[i], new[j])
    BY <1>1 DEF InCausalOrder
  <1> HIDE DEF m
  <1> SUFFICES ASSUME NEW i \in 1..(m + Len(new)), NEW j \in 1..(m + Len(new)), i < j
               PROVE  Precedes(after.events[i], after.events[j])
    BY <1>1 DEF InCausalOrder
  <1>3. \A k \in 1..(m + Len(new)) :
           k > m => k - m \in 1..Len(new) /\ after.events[k] = new[k - m]
    <2> TAKE k \in 1..(m + Len(new))
    <2> HAVE k > m
    <2>1. k - m \in 1..Len(new) /\ m + (k - m) = k
      BY <1>1
    <2> QED
      BY <1>1, <2>1
  <1>4. CASE j <= m
    <2>1. i \in 1..m /\ j \in 1..m
      BY <1>1, <1>4
    <2> QED
      BY <1>1, <1>2, <2>1
  <1>5. CASE i <= m /\ j > m
    <2>1. i \in 1..m
      BY <1>1, <1>5
    <2> QED
      BY <1>1, <1>2, <1>3, <1>5, <2>1
  <1>6. CASE i > m
    <2>1. j > m /\ i - m < j - m
      BY <1>1, <1>6
    <2> QED
      BY <1>1, <1>3, <1>6, <2>1
  <1> QED
    BY <1>1, <1>4, <1>5, <1>6
=============================================================================
