---------------------------- MODULE ShadowSections ----------------------------
(* The analysis with a history of what the critical sections enclosed, for *)
(* what the project's paper says of lock-shadow.                           *)
EXTENDS Analysis

VARIABLE outlived   \* <<k, m>>: a thread let go of m while it had k, both as
                    \* <<address, number of the create event>>

sectionVars == <<vars, outlived>>

SectionsInit == Init /\ outlived = {}

LetGo(t) == HeldBy(t) \ HeldBy(t)'

SectionsNext ==
    /\ Next
    /\ outlived' = outlived \cup
           {p \in UNION {HeldBy(t) \X LetGo(t) : t \in Threads} : p[1] # p[2]}

SectionsSpec == SectionsInit /\ [][SectionsNext]_sectionVars

\* The shadows of l by the paper's rule: what was held at every acquisition of l
\* and was never let go while l was locked.
ByRule(l) == {s \in covers[l][2] : <<<<l, object[l].id>>, s>> \notin outlived}

Named(l) == {r[3] : r \in {x \in reported : x[1] = "shadowed" /\ x[2] = l}}

\* If the rule finds a shadow of an object, at least one report on the object
\* names a shadow that the rule finds; asked when nothing is locked any more, so
\* that every critical section has its end.
ReportedByRule ==
    \A l \in Locks :
        /\ Judged(l)
        /\ \A t \in Threads, k \in Locks : ~Uses(t, k)
        /\ ByRule(l) # {}
        => Named(l) \cap ByRule(l) # {}
=============================================================================
