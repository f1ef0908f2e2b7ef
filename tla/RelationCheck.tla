---------------------------- MODULE RelationCheck ----------------------------
(***************************************************************************)
(* A ReBAC check (qid-iga rebac.rs) against writers of relationship        *)
(* tuples.  The check walks the usersets breadth first and lists the       *)
(* tuples of one after the other, so it may answer from tuples that were   *)
(* never stored together.                                                  *)
(*                                                                         *)
(* A userset is a (namespace, object_id, relation); a tuple relates it to  *)
(* the subject asked for or to another userset.  Tuples of other subjects  *)
(* play no part.  Checks only read, so one stands for all.                 *)
(***************************************************************************)
EXTENDS Naturals, Sequences, SequencesExt

CONSTANTS
    Usersets,
    Root,           \* the userset asked about
    Subject,        \* the subject asked about
    Relations,      \* the tuples that may be stored
    MaxDepth,       \* MAX_DEPTH
    MaxEdits        \* bound: tuples written or deleted

ASSUME RelationAssumption ==
    /\ IsFiniteSet(Usersets) /\ Root \in Usersets /\ Subject \notin Usersets
    /\ Relations \subseteq Usersets \X (Usersets \cup {Subject})
    /\ MaxDepth \in Nat /\ MaxEdits \in Nat

VARIABLES
    tuples,         \* the stored tuples
    walking,        \* where the check is
    worklist,       \* its queue of usersets with their depth
    listed,        \* usersets it has listed
    alwaysStored,           \* history: tuples stored all the time since it began
    everStored,           \* history: tuples stored at some time since it began
    editCount

walkVars == <<walking, worklist, listed>>
relationVars == <<tuples, walkVars, alwaysStored, everStored, editCount>>

Item == [userset: Usersets, depth: Nat]

RelationTypeOK ==
    /\ tuples \subseteq Relations
    /\ alwaysStored \subseteq Relations /\ everStored \subseteq Relations
    /\ walking \in {"idle", "walk", "yes", "no", "failed"}
    /\ worklist \in Seq(Item) /\ listed \subseteq Usersets
    /\ editCount \in 0..MaxEdits

RelationInit ==
    /\ tuples \in SUBSET Relations
    /\ walking = "idle" /\ worklist = <<>> /\ listed = {}
    /\ alwaysStored = {} /\ everStored = {} /\ editCount = 0

BeginWalk ==
    /\ walking = "idle"
    /\ walking' = "walk" /\ worklist' = <<[userset |-> Root, depth |-> 0]>>
    /\ alwaysStored' = tuples /\ everStored' = tuples
    /\ UNCHANGED <<tuples, listed, editCount>>

\* The usersets that the tuples of u name as their subjects.
Inner(u) == {v \in Usersets : <<u, v>> \in tuples}

\* Mutant: the work list is a stack.
PushedFirst(rest, items) == items \o rest

\* queue.push_back, for each tuple.
Pushed(rest, items) == rest \o items

\* An item beyond the depth, or one that was listed before, is skipped.
Skipped(item) == item.depth > MaxDepth \/ item.userset \in listed

SkipItem ==
    /\ walking = "walk" /\ worklist # <<>> /\ Skipped(Head(worklist))
    /\ worklist' = Tail(worklist)
    /\ UNCHANGED <<tuples, walking, listed, alwaysStored, everStored, editCount>>

\* list_relationship_tuples of the next item: a direct tuple ends the walk,
\* usersets join the queue in the order of their created_at, which the
\* writer may choose.
ListUserset ==
    LET item == Head(worklist) IN
    /\ walking = "walk" /\ worklist # <<>> /\ ~Skipped(item)
    /\ listed' = listed \cup {item.userset}
    /\ IF <<item.userset, Subject>> \in tuples
       THEN walking' = "yes" /\ worklist' = <<>>
       ELSE /\ \E order \in SetToSeqs(Inner(item.userset)) :
                  worklist' = Pushed(Tail(worklist),
                     [k \in DOMAIN order |-> [userset |-> order[k], depth |-> item.depth + 1]])
            /\ UNCHANGED walking
    /\ UNCHANGED <<tuples, alwaysStored, everStored, editCount>>

\* A failing list ends the check with an error, which the policy takes as
\* unknown.
ListFails ==
    /\ walking = "walk" /\ worklist # <<>> /\ ~Skipped(Head(worklist))
    /\ walking' = "failed" /\ worklist' = <<>>
    /\ UNCHANGED <<tuples, listed, alwaysStored, everStored, editCount>>

WalkEnds ==
    /\ walking = "walk" /\ worklist = <<>>
    /\ walking' = "no"
    /\ UNCHANGED <<tuples, worklist, listed, alwaysStored, everStored, editCount>>

\* write_tuples and delete_tuples: one tuple at a time.  A tuple that exists
\* is a conflict.
WriteTuple ==
    /\ editCount < MaxEdits /\ editCount' = editCount + 1
    /\ \E t \in Relations \ tuples :
          /\ tuples' = tuples \cup {t}
          /\ everStored' = IF walking = "walk" THEN everStored \cup {t} ELSE everStored
    /\ UNCHANGED <<walkVars, alwaysStored>>

DeleteTuple ==
    /\ editCount < MaxEdits /\ editCount' = editCount + 1
    /\ \E t \in tuples :
          /\ tuples' = tuples \ {t}
          /\ alwaysStored' = IF walking = "walk" THEN alwaysStored \ {t} ELSE alwaysStored
    /\ UNCHANGED <<walkVars, everStored>>

RelationNext ==
    \/ BeginWalk \/ SkipItem \/ ListUserset \/ ListFails \/ WalkEnds
    \/ WriteTuple \/ DeleteTuple

RelationSpec == RelationInit /\ [][RelationNext]_relationVars

-----------------------------------------------------------------------------
\* The subject is related to Root by the tuples of R, through at most MaxDepth
\* usersets.
Related(R) ==
    LET reach[d \in 0..MaxDepth] ==
          IF d = 0 THEN {Root}
          ELSE reach[d - 1] \cup {v \in Usersets : \E u \in reach[d - 1] : <<u, v>> \in R}
    IN  \E u \in reach[MaxDepth] : <<u, Subject>> \in R

\* A check that overlaps with writers errs neither way by more than they
\* changed: it says yes only on tuples that were stored while it ran, and no
\* only if the tuples stored all the while do not relate the subject within
\* MAX_DEPTH (rebac.rs:55; the queue is what makes each userset's first visit
\* its shallowest).
CheckFollowsTuples ==
    /\ walking = "yes" => Related(everStored)
    /\ walking = "no" => ~Related(alwaysStored)
=============================================================================
