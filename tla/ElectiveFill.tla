---------------------------- MODULE ElectiveFill ----------------------------
(***************************************************************************)
(* Electives: which subjects a student may choose from                     *)
(* (app/services/elective_pools.py, eligibility_service.py and             *)
(* elective_ranking.py) and how the placeholders of a study plan are       *)
(* filled with them (elective_service.py), one placeholder a step, in      *)
(* calendar order.                                                         *)
(*                                                                         *)
(* The campus is fixed.  A subject's level is taken to be the one its code *)
(* shows unless the handbook leaves it out (level 0); a relevance score is *)
(* a number, 0 below the threshold.  Names and credit points of rows are   *)
(* left out.                                                               *)
(***************************************************************************)
EXTENDS Equivalents

CONSTANTS
    Satisfied(_, _),\* expressions_satisfied, see Requirements
    Catalog,        \* the subjects the catalog describes
    Position,       \* Position[c]: the place of c in alphabetical order
    Offered,        \* Offered[c]: the sessions in which c runs on this campus
    Corequisites,   \* Corequisites[c]: a sequence of expressions
    Excludes,       \* Excludes[c]: the codes c cannot be taken with
    Prefix,         \* Prefix[c]: the letters of the code
    GeneralSchedule,\* the subjects with that tag
    OtherPools,     \* pool configurations of the course besides the one to fill from
    Core,           \* subjects the course or the major requires
    Problems,       \* the plans to fill, see problem
    MAX_100_LEVEL_CP,
    LIMIT,          \* of the ranking
    Placeholder     \* the code of a row that is still to be filled

ASSUME PlaceholderAssumption == Placeholder \notin Subjects
ASSUME LimitAssumption == LIMIT \in Nat /\ MAX_100_LEVEL_CP \in Nat
ASSUME CatalogAssumption ==
    /\ Catalog \subseteq Subjects /\ Core \subseteq Subjects
    /\ Position \in [Subjects -> Nat]
    /\ \A c, d \in Subjects : Position[c] = Position[d] => c = d

\* No requirement asks for a subject not to be held.
ASSUME MoreSatisfiesAssumption ==
    \A c, d \in Subjects : \A held \in SUBSET Subjects :
        Satisfied(Corequisites[c], held) => Satisfied(Corequisites[c], held \union {d})

PlanRows == [year: Nat, session: STRING, code: Subjects \union {Placeholder}, level: Nat]

ASSUME ProblemsAssumption ==
    \A p \in Problems :
        /\ p.completed \subseteq Subjects /\ p.planned \subseteq Subjects
        /\ p.score \in [Subjects -> Nat]
        /\ p.rows \in Seq(PlanRows)

VARIABLES
    problem,    \* [needs, pool, score, completed, planned, rows]: the prerequisites
                \* and relevance of each subject, the pool configuration, the
                \* student's progress and the plan as it came
    plan,       \* the rows: year, session, code, and the level the row asks for
    todo        \* the placeholders still to be visited

vars == <<problem, plan, todo>>

ALLOWED_ELECTIVE_LEVELS == {100, 200, 300}

Known == problem.completed \union problem.planned

-----------------------------------------------------------------------------
(* What a student may take                                                 *)

ReplacementBlocked(c, held) ==
    \E e \in Satisfies : e[2] = c /\ e[1] \in ExpandHeld(held)

ExclusionBlocked(c, held) == Excludes[c] \intersect ExpandHeld(held) # {}

FirstYearPoints(codes) == PointsAtLevel(100, codes)

\* Slip: the cap is compared with what is held without the new subject.
UnderCapBefore(c, held) == Level[c] = 100 => FirstYearPoints(held) <= MAX_100_LEVEL_CP

UnderCap(c, held) == Level[c] = 100 => FirstYearPoints(held \union {c}) <= MAX_100_LEVEL_CP

\* _rules_allow.
RulesAllow(c, held, prior, through) ==
    /\ Satisfied(problem.needs[c], prior)
    /\ Satisfied(Corequisites[c], through)
    /\ ~ExclusionBlocked(c, held)
    /\ ~ReplacementBlocked(c, held)
    /\ UnderCap(c, held)

\* "A named list is not allowed to bypass level validation."
Named(codes) == {c \in codes \intersect Catalog : Level[c] \in ALLOWED_ELECTIVE_LEVELS}

\* resolve_pool_candidates: the pool may narrow the levels, never widen them.
PoolCandidates(pool, forbidden) ==
    LET levels == ALLOWED_ELECTIVE_LEVELS \intersect
                    (IF pool.levels = {} THEN ALLOWED_ELECTIVE_LEVELS ELSE pool.levels)
        matching == {c \in Catalog :
                        /\ Level[c] \in levels
                        /\ \/ pool.prefixes = {} \/ Prefix[c] \in pool.prefixes
                           \/ pool.general /\ c \in GeneralSchedule}
    IN  CASE pool.mode = "named_list" -> Named(pool.codes) \ forbidden
          [] pool.mode \in {"open", "prefix_level"} -> matching \ forbidden
          [] OTHER -> {}

\* build_eligible_elective_pool, for one session.
EligiblePool(session) ==
    {c \in PoolCandidates(problem.pool, Core \union Known) :
        session \in Offered[c] /\ RulesAllow(c, Known, Known, Known)}

\* Slip: what is planned counts for no prerequisite.
HeldCompleted == problem.completed

HeldForPrerequisites == Known

\* get_eligible_subjects: exclusions and replacements look at what is completed,
\* not at what is planned.
EligibleSubjects(session) ==
    {c \in Catalog \ Known :
        /\ session \in Offered[c]
        /\ Satisfied(problem.needs[c], HeldForPrerequisites)
        /\ Satisfied(Corequisites[c], Known)
        /\ ~ExclusionBlocked(c, problem.completed)
        /\ ~ReplacementBlocked(c, problem.completed)
        /\ UnderCap(c, Known)}

\* What get_elective_priorities ranks for one of the pools.
PriorityCandidates(pool, session) ==
    PoolCandidates(pool, Core \union Known) \intersect (EligibleSubjects(session) \ Core)

\* rank_subjects_by_keywords: the relevant ones by score, then by code, up to a
\* limit.
Sorted(codes) ==
    LET relevant == {c \in codes : problem.score[c] > 0}
        Above(c) == {d \in relevant : \/ problem.score[d] > problem.score[c]
                                      \/ problem.score[d] = problem.score[c] /\ Position[d] < Position[c]}
    IN  [n \in 1 .. Cardinality(relevant) |->
            CHOOSE c \in relevant : Cardinality(Above(c)) = n - 1]

Shortlist(codes) == SubSeq(Sorted(codes), 1, Min({LIMIT, Len(Sorted(codes))}))

Shortlists(session) ==
    {Shortlist(PriorityCandidates(pool, session)) : pool \in {problem.pool} \union OtherPools}

\* Slip: the shortlists stand one behind the other.
MergedInTurn(lists) == FoldSet(LAMBDA list, all : all \o list, <<>>, lists)

\* flatten_ranked_electives: "Merge pool results and globally sort by relevance".
Merged(lists) == Sorted(UNION {ToSet(list) : list \in lists})

-----------------------------------------------------------------------------
(* Filling the plan                                                        *)

IsPlaceholder(row) == row.code = Placeholder

Slots == {i \in DOMAIN problem.rows : IsPlaceholder(problem.rows[i])}
Fixed == {problem.rows[i].code : i \in DOMAIN problem.rows \ Slots}

SessionRank(session) ==
    CASE session = "autumn" -> 0 [] session = "spring" -> 1 [] session = "summer" -> 2
      [] OTHER -> 9

When(row) == 10 * row.year + SessionRank(row.session)

Rows == {i \in DOMAIN plan : ~IsPlaceholder(plan[i])}
CodesAt(indices) == {plan[i].code : i \in indices}

\* _held, without and with the rows of the same session.
Prior(i) == Known \union CodesAt({k \in Rows : When(plan[k]) < When(plan[i])})
Through(i) == Known \union CodesAt({k \in Rows : When(plan[k]) <= When(plan[i])})
Scheduled == Known \union CodesAt(Rows)

\* Slip: placeholders are filled in the order in which the plan lists them.
NextListed(indices) == Min(indices)

\* fill_elective_slots walks the plan by (year, session), then by position.
NextSlot(indices) ==
    CHOOSE i \in indices :
        \A k \in indices \ {i} :
            \/ When(plan[i]) < When(plan[k])
            \/ When(plan[i]) = When(plan[k]) /\ i < k

\* The checks of _first_fit.
Fits(c, i) ==
    /\ Level[c] \in ALLOWED_ELECTIVE_LEVELS
    /\ c \notin Scheduled
    /\ plan[i].level # 0 => Level[c] = plan[i].level
    /\ plan[i].session \in Offered[c]
    /\ RulesAllow(c, Scheduled, Prior(i), Through(i))

\* What fill_plan_from_subjects ranks: the pool, whatever the timeline.
Ranked == Shortlist(PoolCandidates(problem.pool, Core \union Known \union Fixed))

Init ==
    /\ problem \in Problems
    /\ plan = problem.rows
    /\ todo = Slots

\* The first ranked subject that fits wins; without one the row stays as it is.
FillSlot ==
    /\ todo # {}
    /\ LET i == NextSlot(todo)
           ranked == Ranked
           fitting == {n \in DOMAIN ranked : Fits(ranked[n], i)}
       IN  /\ plan' = IF fitting = {} THEN plan
                      ELSE [plan EXCEPT ![i].code = ranked[Min(fitting)]]
           /\ todo' = todo \ {i}
    /\ UNCHANGED problem

Next == FillSlot

Spec == Init /\ [][Next]_vars

-----------------------------------------------------------------------------
(* Properties                                                              *)

\* Rows keep their times, only placeholders are filled, and only with subjects
\* of the catalog.
TypeOK ==
    /\ todo \subseteq Slots
    /\ DOMAIN plan = DOMAIN problem.rows
    /\ \A i \in DOMAIN plan :
        \/ plan[i] = problem.rows[i]
        \/ /\ i \in Slots \ todo
           /\ plan[i].code \in Catalog
           /\ plan[i] = [problem.rows[i] EXCEPT !.code = plan[i].code]

\* The rows that were filled.
Filled == {i \in Rows : i \in Slots}

\* "Prerequisites must already be completed, planned, or sitting in an earlier
\* session. Corequisites may sit in the same session" (fill_elective_slots): in
\* the plan as it stands, in whatever order its rows were filled.
RequirementsMet ==
    \A i \in Filled :
        LET earlier == {k \in Rows : \/ plan[k].year < plan[i].year
                                     \/ /\ plan[k].year = plan[i].year
                                        /\ SessionRank(plan[k].session) < SessionRank(plan[i].session)}
            beside == {k \in Rows : /\ plan[k].year = plan[i].year
                                     /\ SessionRank(plan[k].session) = SessionRank(plan[i].session)}
        IN  /\ Satisfied(problem.needs[plan[i].code], Known \union CodesAt(earlier))
            /\ Satisfied(Corequisites[plan[i].code],
                                    Known \union CodesAt(earlier \union beside))

Forbids(c, d) == \E e \in Excludes[c] : <<e, d>> \in Linked

\* No subject is in the plan twice or again after it was completed or planned; a
\* subject in a filled row excludes, directly or through an equivalent, nothing
\* that was completed, planned or fixed, and replaces none of it; and no two
\* filled rows exclude each other.
NothingClashes ==
    LET given == Known \union Fixed
    IN  \A i \in Filled :
            /\ plan[i].code \notin given
            /\ \A d \in given :
                /\ ~Forbids(plan[i].code, d)
                /\ ~\E e \in Satisfies : e[2] = plan[i].code /\ <<e[1], d>> \in Linked
            /\ \A k \in Filled \ {i} :
                /\ plan[k].code # plan[i].code
                /\ ~(Forbids(plan[i].code, plan[k].code) /\ Forbids(plan[k].code, plan[i].code))

\* Electives never take the plan past the first-year cap (max_100_level_cp).
FirstYearCapKept ==
    FirstYearPoints(Scheduled) <= Max({MAX_100_LEVEL_CP, FirstYearPoints(Known \union Fixed)})

\* A filled row keeps every rule in the plan that comes out (fill_elective_slots), though
\* its subject was tried when other rows were still empty.
RulesKept == RequirementsMet /\ NothingClashes /\ FirstYearCapKept

\* "The first ranked subject that passes wins; a slot with no match is left
\* unchanged": once the plan has been walked, no ranked subject outside it would
\* fit, in the finished plan, a row that is still empty or that holds a subject
\* ranked lower; a corequisite counts beside that row unless it came later.
NothingBetterFits ==
    todo = {} =>
        \A i \in Slots : \A n \in DOMAIN Ranked :
            LET better == Ranked[n]
                others == Known \union CodesAt(Rows \ {i})
                beside == {k \in Rows : When(plan[k]) = When(plan[i]) /\ (k \in Slots => k < i)}
            IN  /\ better \notin Scheduled
                /\ plan[i].code = Placeholder
                    \/ \E m \in DOMAIN Ranked : n < m /\ Ranked[m] = plan[i].code
                => ~(/\ plan[i].level \in {0, Level[better]}
                     /\ plan[i].session \in Offered[better]
                     /\ RulesAllow(better, others, Prior(i), Prior(i) \union CodesAt(beside)))

\* The two answers to "which electives may I take this session" agree: the pool
\* builder offers nothing the ranked list would not consider, and the list
\* considers beyond it only what clashes with a planned subject
\* (build_eligible_elective_pool and get_elective_priorities).
ListsAgree ==
    todo = {} =>
        \A session \in UNION {Offered[c] : c \in Catalog} :
            /\ EligiblePool(session) \subseteq PriorityCandidates(problem.pool, session)
            /\ \A c \in PriorityCandidates(problem.pool, session) \ EligiblePool(session) :
                \E d \in problem.planned :
                    \/ Forbids(c, d)
                    \/ \E e \in Satisfies : e[2] = c /\ <<e[1], d>> \in Linked

\* The list the advisor is shown starts with the subjects that are best over all
\* pools, though each pool was cut off on its own, and names none twice
\* (get_stage1_elective_list).
BestOfAllPools ==
    todo = {} =>
        \A session \in UNION {Offered[c] : c \in Catalog} :
            LET list == Merged(Shortlists(session))
                all  == UNION {PriorityCandidates(pool, session) :
                                    pool \in {problem.pool} \union OtherPools}
            IN  /\ SubSeq(list, 1, Min({LIMIT, Len(list)})) = Shortlist(all)
                /\ Len(list) = Cardinality(ToSet(list))

-----------------------------------------------------------------------------
(* What the repository says and the code does not do.                      *)

\* "Corequisites may sit in the same session" (elective_service.py:159): one
\* that is placed there later comes too late.
NoFitIsMissed ==
    todo = {} =>
        \A i \in Slots \ Filled : \A n \in DOMAIN Ranked :
            ~Fits(Ranked[n], i)

\* "Return subjects the student may enrol in" (eligibility_service.py:160): a
\* planned subject excludes nothing there.
EligibleIsCompatible ==
    \A session \in UNION {Offered[c] : c \in Catalog} :
        \A c \in EligibleSubjects(session) : ~ExclusionBlocked(c, Known)
=============================================================================
