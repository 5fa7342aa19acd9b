----------------------------- MODULE GroupTable -----------------------------
(***************************************************************************)
(* The table of groups of sonnet-cache-v2 (group.go) under its mutex: a    *)
(* group is put in by NewGroup, replacing one of the same name, and taken  *)
(* out by Close, DestroyGroup or DestroyAllGroups.                         *)
(***************************************************************************)
EXTENDS Naturals, FiniteSets

CONSTANTS Names, Groups, Name,   \* the name of each group
          Procs, None

VARIABLES
  groups,      \* the table
  made, shut,  \* groups created, groups closed
  groupsMu,    \* its holder
  pc           \* [at, ...] of each goroutine

vars == <<groups, made, shut, groupsMu, pc>>

Idle == [at |-> "idle"]
Goto(p, to) == pc' = [pc EXCEPT ![p] = to]

Init ==
  /\ groups = [n \in Names |-> None] /\ made = {} /\ shut = {} /\ groupsMu = None
  /\ pc = [p \in Procs |-> Idle]

\* NewGroup replaces.
NewGroup(p, g) ==
  /\ pc[p] = Idle /\ g \notin made /\ groupsMu = None
  /\ made' = made \cup {g} /\ groups' = [groups EXCEPT ![Name[g]] = g]
  /\ UNCHANGED <<shut, groupsMu, pc>>

\* GetGroup: called, and answered once the mutex is free.
AskGroup(p) ==
  /\ pc[p] = Idle /\ Goto(p, [at |-> "lookup"])
  /\ UNCHANGED <<groups, made, shut, groupsMu>>

GetGroup(p) ==
  /\ pc[p].at = "lookup" /\ groupsMu = None /\ Goto(p, Idle)
  /\ UNCHANGED <<groups, made, shut, groupsMu>>

-----------------------------------------------------------------------------
\* Close, by itself or from Destroy: the first one goes on, to the cache and the mutex.
BeginClose(p, g) ==
  /\ pc[p] = Idle /\ g \in made /\ Goto(p, [at |-> "close", group |-> g, all |-> {}])
  /\ UNCHANGED <<groups, made, shut, groupsMu>>

Returns(p) == Goto(p, IF groupsMu = p THEN [pc[p] EXCEPT !.at = "unlist"] ELSE Idle)

CloseOnce(p) ==
  LET g == pc[p].group IN
  /\ pc[p].at = "close" /\ shut' = shut \cup {g}
  /\ IF g \in shut THEN Returns(p) ELSE Goto(p, [pc[p] EXCEPT !.at = "leave"])
  /\ UNCHANGED <<groups, made, groupsMu>>

\* The name is deleted, whoever it stands for.  In Destroy the mutex is taken
\* already, and this waits for ever.
Leave(p) ==
  LET g == pc[p].group IN
  /\ pc[p].at = "leave" /\ groupsMu = None
  /\ groups' = [groups EXCEPT ![Name[g]] = None]
  /\ Goto(p, Idle)
  /\ UNCHANGED <<made, shut, groupsMu>>

-----------------------------------------------------------------------------
\* DestroyGroup and DestroyAllGroups hold the mutex to the end.
Destroy(p, names) ==
  LET found == {groups[n] : n \in names} \ {None} IN
  /\ pc[p] = Idle /\ groupsMu = None /\ found # {}
  /\ groupsMu' = p
  /\ \E g \in found : Goto(p, [at |-> "close", group |-> g, all |-> found \ {g}])
  /\ UNCHANGED <<groups, made, shut>>

Unlist(p) ==
  /\ pc[p].at = "unlist"
  /\ groups' = [groups EXCEPT ![Name[pc[p].group]] = None]
  /\ \/ /\ pc[p].all = {} /\ groupsMu' = None /\ Goto(p, Idle)
     \/ \E g \in pc[p].all :
          /\ Goto(p, [at |-> "close", group |-> g, all |-> pc[p].all \ {g}]) /\ UNCHANGED groupsMu
  /\ UNCHANGED <<made, shut>>

Step(p) == GetGroup(p) \/ CloseOnce(p) \/ Leave(p) \/ Unlist(p)

Next ==
  \E p \in Procs :
    \/ AskGroup(p) \/ Step(p)
    \/ \E g \in Groups : NewGroup(p, g) \/ BeginClose(p, g)
    \/ Destroy(p, Names) \/ \E n \in Names : Destroy(p, {n})

\* Goroutines run, and the mutex is granted.
Fairness == \A p \in Procs : SF_vars(Step(p))

Spec == Init /\ [][Next]_vars /\ Fairness

-----------------------------------------------------------------------------
\* Properties.

\* Somebody in Destroy waits for the mutex he holds.
SelfLocked == \E p \in Procs : groupsMu = p /\ pc[p].at = "leave"

\* Looking up and closing groups ends, unless DestroyGroup or DestroyAllGroups meets
\* a group that is still open (group.go:257-275, 403-427).
GroupCallsEnd == \A p \in Procs : pc[p].at \in {"lookup", "close"} ~> (pc[p] = Idle \/ SelfLocked)

\* "DestroyGroup destroys specified cache group" (group.go:402): it returns, and gives
\* the mutex back.  It does not when the group is still open: Close, which it calls
\* with the mutex held, locks the same mutex (group.go:268).
DestroyReturns == \A p \in Procs : groupsMu = p ~> groupsMu # p
=============================================================================
