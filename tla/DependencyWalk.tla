--------------------------- MODULE DependencyWalk ---------------------------
(***************************************************************************)
(* The breadth-first walk of HeaderChecker::IsDependencyOf(search_for,    *)
(* search_from, require_permitted, chain) (src/gn/header_checker.cc,      *)
(* lines 633-695) and its BreadcrumbTable (lines 131-168).                 *)
(*                                                                         *)
(* The dependency graph is an input chosen in Init and never changes.     *)
(* The order in which a target declares its deps is not an input: each    *)
(* target is expanded at most once per walk, so choosing the order of its *)
(* newly discovered deps at expansion time covers every declared order.   *)
(***************************************************************************)
EXTENDS Integers, Sequences, FiniteSets, SequencesExt

CONSTANTS
  Targets,     \* the resolved targets
  NoTarget,    \* the null Target* of an empty ChainLink
  DepGraphs    \* the graphs to explore: records [pub, priv] of [Targets -> SUBSET Targets]

ASSUME NoTarget \notin Targets

VARIABLES
  publicDeps,        \* target->public_deps()
  privateDeps,       \* target->private_deps()
  searchFor,         \* search_for
  searchFrom,        \* search_from
  requirePermitted,  \* require_permitted
  workQueue,         \* work_queue: a FIFO of ChainLinks
  breadcrumbs,       \* BreadcrumbTable: target -> ChainLink(src_target, is_public)
  firstTime,         \* first_time
  chain,             \* *chain, filled when search_for is found
  result             \* "running" inside the loop, then "found" or "notfound"

inputs == <<publicDeps, privateDeps, searchFor, searchFrom, requirePermitted>>
vars == <<inputs, workQueue, breadcrumbs, firstTime, chain, result>>

Link(t, p) == [target |-> t, is_public |-> p]
NullLink == Link(NoTarget, FALSE)

(* BreadcrumbTable::Insert only records a target's first discovery. *)
Unseen(deps) == {d \in deps : breadcrumbs[d] = NullLink}

(* The chain reconstruction loop of lines 664-671: follow the breadcrumbs *)
(* back from the found link to search_from, then append (search_from, true). *)
(* BreadcrumbTable::GetLink (header_checker.cc 157-168): the link a     *)
(* target was reached by, or the null link for one not reached.          *)
GetLink(t) == breadcrumbs[t]

RECURSIVE ChainBack(_)
ChainBack(link) ==
  IF link.target = searchFrom
    THEN << Link(searchFrom, TRUE) >>
    ELSE << link >> \o ChainBack(GetLink(link.target))

Init ==
  /\ \E g \in DepGraphs : publicDeps = g.pub /\ privateDeps = g.priv
  /\ searchFor \in Targets
  /\ searchFrom \in Targets \ {searchFor}   \* IsDependencyOf returns early when equal
  /\ requirePermitted \in BOOLEAN
  /\ workQueue = << Link(searchFrom, TRUE) >>
  /\ breadcrumbs = [t \in Targets |-> NullLink]
  /\ firstTime = TRUE
  /\ chain = << >>
  /\ result = "running"

(* Pop the front link; it is search_for: rebuild the chain and return true. *)
PopFound ==
  /\ result = "running"
  /\ workQueue # << >>
  /\ Head(workQueue).target = searchFor
  /\ chain' = ChainBack(Head(workQueue))
  /\ result' = "found"
  /\ workQueue' = Tail(workQueue)
  /\ UNCHANGED <<inputs, breadcrumbs, firstTime>>

(* Mutants of Expand, each a plausible slip in the loop body. *)
ExpandEdgeFlag ==      \* the breadcrumb stores the new edge's kind, not cur_link.is_public
  /\ result = "running"
  /\ workQueue # << >>
  /\ LET cur == Head(workQueue)  t == cur.target
         newPub == Unseen(publicDeps[t])
         takePriv == firstTime \/ ~requirePermitted
         newPriv == IF takePriv THEN Unseen(privateDeps[t]) \ newPub ELSE {}
     IN  \E pubOrder \in SetToSeqs(newPub), privOrder \in SetToSeqs(newPriv) :
           /\ t # searchFor
           /\ breadcrumbs' = [d \in Targets |->
                                IF d \in newPub THEN Link(t, TRUE)
                                ELSE IF d \in newPriv THEN Link(t, FALSE) ELSE breadcrumbs[d]]
           /\ workQueue' = Tail(workQueue)
                           \o [i \in 1..Len(pubOrder) |-> Link(pubOrder[i], TRUE)]
                           \o [i \in 1..Len(privOrder) |-> Link(privOrder[i], FALSE)]
           /\ firstTime' = IF takePriv THEN FALSE ELSE firstTime
  /\ UNCHANGED <<inputs, chain, result>>

ExpandFirstTimeKept ==  \* first_time is never cleared
  /\ result = "running"
  /\ workQueue # << >>
  /\ LET cur == Head(workQueue)  t == cur.target
         newPub == Unseen(publicDeps[t])
         newPriv == IF firstTime \/ ~requirePermitted THEN Unseen(privateDeps[t]) \ newPub ELSE {}
     IN  \E pubOrder \in SetToSeqs(newPub), privOrder \in SetToSeqs(newPriv) :
           /\ t # searchFor
           /\ breadcrumbs' = [d \in Targets |->
                                IF d \in newPub \cup newPriv THEN Link(t, cur.is_public)
                                ELSE breadcrumbs[d]]
           /\ workQueue' = Tail(workQueue)
                           \o [i \in 1..Len(pubOrder) |-> Link(pubOrder[i], TRUE)]
                           \o [i \in 1..Len(privOrder) |-> Link(privOrder[i], FALSE)]
  /\ UNCHANGED <<inputs, chain, result, firstTime>>

ExpandOverwrite ==      \* Insert overwrites an existing breadcrumb and reports it new
  /\ result = "running"
  /\ workQueue # << >>
  /\ LET cur == Head(workQueue)  t == cur.target
         newPub == publicDeps[t]
         takePriv == firstTime \/ ~requirePermitted
         newPriv == IF takePriv THEN privateDeps[t] \ newPub ELSE {}
     IN  \E pubOrder \in SetToSeqs(newPub), privOrder \in SetToSeqs(newPriv) :
           /\ t # searchFor
           /\ breadcrumbs' = [d \in Targets |->
                                IF d \in newPub \cup newPriv THEN Link(t, cur.is_public)
                                ELSE breadcrumbs[d]]
           /\ workQueue' = Tail(workQueue)
                           \o [i \in 1..Len(pubOrder) |-> Link(pubOrder[i], TRUE)]
                           \o [i \in 1..Len(privOrder) |-> Link(privOrder[i], FALSE)]
           /\ firstTime' = IF takePriv THEN FALSE ELSE firstTime
  /\ UNCHANGED <<inputs, chain, result>>

(* Pop the front link; it is not search_for: record breadcrumbs for its   *)
(* unseen public deps and enqueue them as public links, then, on the first *)
(* pop or when any chain is allowed, the same for its private deps.       *)
Expand ==
  /\ result = "running"
  /\ workQueue # << >>
  /\ LET cur      == Head(workQueue)
         t        == cur.target
         newPub   == Unseen(publicDeps[t])
         takePriv == firstTime \/ ~requirePermitted
         newPriv  == IF takePriv THEN Unseen(privateDeps[t]) \ newPub ELSE {}
     IN  \E pubOrder \in SetToSeqs(newPub), privOrder \in SetToSeqs(newPriv) :
           /\ t # searchFor
           /\ breadcrumbs' = [d \in Targets |->
                                IF d \in newPub \cup newPriv
                                  THEN Link(t, cur.is_public)
                                  ELSE breadcrumbs[d]]
           /\ workQueue' = Tail(workQueue)
                           \o [i \in 1..Len(pubOrder) |-> Link(pubOrder[i], TRUE)]
                           \o [i \in 1..Len(privOrder) |-> Link(privOrder[i], FALSE)]
           /\ firstTime' = IF takePriv THEN FALSE ELSE firstTime
  /\ UNCHANGED <<inputs, chain, result>>

(* The queue is empty: the loop ends and the walk returns false. *)
Exhausted ==
  /\ result = "running"
  /\ workQueue = << >>
  /\ result' = "notfound"
  /\ UNCHANGED <<inputs, workQueue, breadcrumbs, firstTime, chain>>

(* Mutant of ChainArrow: the arrow after a link is chosen by that link's  *)
(* own flag instead of the flag of the link it leads to.                  *)
ChainArrowOwnFlag(c, i) ==
  IF i = 0 THEN ""
  ELSE IF i = Len(c) - 1 \/ c[i + 1].is_public THEN "-->" ELSE "--[private]-->"

(* The arrow GetDependencyChainPublicError prints after chain[i] (0-based, *)
(* lines 84-97): none after search_for; after search_from, or when the     *)
(* next link chain[i - 1] was reached by a public dep, "-->"; otherwise    *)
(* "--[private]-->".                                                       *)
ChainArrow(c, i) ==
  IF i = 0 THEN ""
  ELSE IF i = Len(c) - 1 \/ c[i].is_public THEN "-->" ELSE "--[private]-->"

(* The dependency chain part of the message (lines 60-100), one          *)
(* <<target, arrow>> line per link from search_from down to search_for;   *)
(* empty for the "no dependency chain" text. Labels are targets.          *)
GetDependencyChainPublicError(c) ==
  [j \in 1..Len(c) |-> << c[Len(c) - j + 1].target, ChainArrow(c, Len(c) - j) >>]

Next == PopFound \/ Expand \/ Exhausted

Spec == Init /\ [][Next]_vars /\ WF_vars(Next)

-----------------------------------------------------------------------------
(* Reference definitions: the paths the walk is meant to search. *)

Deps(t) == publicDeps[t] \cup privateDeps[t]

(* A path from search_from: every edge is a dep edge and, when a permitted *)
(* chain is required, every edge after the first is a public dep edge.     *)
IsPathOfKind(p, permitted) ==
  /\ p[1] = searchFrom
  /\ \A i \in 1..Len(p) - 1 :
       IF permitted /\ i > 1 THEN p[i + 1] \in publicDeps[p[i]]
                             ELSE p[i + 1] \in Deps(p[i])

IsSearchPath(p) == IsPathOfKind(p, requirePermitted)

Paths == UNION {[1..k -> Targets] : k \in 1..Cardinality(Targets)}

SearchPaths == {p \in Paths : IsSearchPath(p)}

PathsToTarget == {p \in SearchPaths : p[Len(p)] = searchFor}

(* search_for lies on a permitted path: IsDependencyOf(search_for,        *)
(* search_from, is_permitted) then never asks for a non-permitted chain.   *)
PermittedPathExists ==
  \E p \in Paths : IsPathOfKind(p, TRUE) /\ p[Len(p)] = searchFor

Done == result # "running"

(* The walk answers "found" exactly when search_for lies on a path of the  *)
(* requested kind: the permitted walk must neither miss a chain whose      *)
(* first hop is private nor follow a private edge further down.           *)
WalkComplete == Done => (result = "found" <=> PathsToTarget # {})

(* A returned chain runs from search_for (chain[0]) back to search_from    *)
(* (chain[last]), is a path of the requested kind, and every link's        *)
(* is_public flag is the kind of the edge that reached that link's target, *)
(* as GetDependencyChainPublicError relies on when marking "[private]".   *)
WalkSound ==
  result = "found" =>
    LET targets == Reverse([i \in 1..Len(chain) |-> chain[i].target])
    IN  /\ targets \in PathsToTarget
        /\ chain[Len(chain)].is_public
        /\ \A i \in 1..Len(chain) - 1 :
             chain[i].is_public = (chain[i].target \in publicDeps[chain[i + 1].target])

(* When no permitted chain exists and CheckInclude reports "Can't include  *)
(* this header from here" with the chain of the second walk, the chain has *)
(* at least three links (the DCHECK of line 70), the message lists the     *)
(* chain from the includer down, marks "[private]" exactly the hops after  *)
(* the first that are private deps, and marks at least one: the reader is *)
(* shown where the chain went bad.                                         *)
NonPublicChainShown ==
  result = "found" /\ ~requirePermitted /\ ~PermittedPathExists =>
    LET lines == GetDependencyChainPublicError(chain)
    IN  /\ Len(chain) >= 3
        /\ [j \in 1..Len(lines) |-> lines[j][1]] \in PathsToTarget
        /\ lines[Len(lines)][2] = ""
        /\ \A j \in 1..Len(lines) - 1 :
             (lines[j][2] = "--[private]-->")
               = (j > 1 /\ lines[j + 1][1] \notin publicDeps[lines[j][1]])
        /\ \E j \in 1..Len(lines) : lines[j][2] = "--[private]-->"

(* The chain is a shortest one ("only the shortest dependency path is      *)
(* interesting"), whatever order the targets declare their deps in.       *)
WalkShortest ==
  result = "found" => \A p \in PathsToTarget : Len(chain) <= Len(p)
=============================================================================
