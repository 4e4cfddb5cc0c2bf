----------------------------- MODULE CategoryTree -----------------------------
(***************************************************************************)
(* The categories of a journal (journals/category_services.py): a tree of  *)
(* three levels at most.  Each row caches the path of its page, and every  *)
(* path that a page has left redirects to where it went.                   *)
(*                                                                         *)
(* A rename locks the row of the category, then reads the rows below it    *)
(* without locks, and locks and rewrites them afterwards: other requests   *)
(* come in between.  A move lists the rows below without locks, then waits *)
(* for the locks of those it has listed and reads them as they are by      *)
(* then: what was put below the category meanwhile is not among them.      *)
(* Listing takes a query for each level, which are one step here.          *)
(*                                                                         *)
(* One journal.  Left out: the status and the order of categories, the     *)
(* placements and articles that refer to them, versions (a stale form is   *)
(* refused), and permissions.  Slugs are of one length, so that a path     *)
(* that is cut off after so many characters is cut between two slugs.      *)
(***************************************************************************)
EXTENDS Naturals, Sequences, FiniteSets, Absent

CONSTANTS
    Categories,   \* primary keys of categories
    Slugs,        \* slugs they may be given
    MaxDepth,     \* MAX_DEPTH
    Curators,     \* requests under way together
    MaxMoves      \* bound: renames and moves

ASSUME TreeAssumption ==
    /\ MaxDepth \in Nat \ {0} /\ MaxMoves \in Nat
    /\ IsFiniteSet(Categories)
    /\ None \notin Categories

VARIABLES
    category,   \* the JournalCategory rows
    redirect,   \* the active JournalCategoryPathRedirect rows, by old_path
    revising,   \* what each request has locked and read
    drifted,    \* history: a rename or a move rewrote rows that were by then
                \* not those below the category, or not as it had read them
    moves       \* renames and moves so far

treeVars == <<category, redirect, revising, drifted, moves>>

-----------------------------------------------------------------------------

Paths == UNION {[1..n -> Slugs] : n \in 1..MaxDepth}

Nodes == [parent : Categories \cup {None}, slug : Slugs, path : Paths]

ASSUME PathAssumption == None \notin Paths /\ None \notin Nodes

\* A rename: `before` has the paths of the rows below and of the category
\* itself, `under` the path of its parent.  A move, first of the category
\* alone and then with the rows it has listed.
Revisions ==
    [of : Categories, slug : Slugs, under : Paths \cup {<<>>},
     before : [Categories -> Paths \cup {None}]]
    \cup [of : Categories, to : Categories \cup {None}]
    \cup [of : Categories, to : Categories \cup {None},
          listed : SUBSET Categories]

Present == {c \in Categories : category[c] # None}

Live == {category[c].path : c \in Present}

PathOf(p) == IF p = None THEN <<>> ELSE category[p].path

\* get_descendant_ids(include_self=True)
Subtree(c) ==
    LET Children(s) == {d \in Present : category[d].parent \in s}
        Within[n \in 0..Cardinality(Categories)] ==
            IF n = 0 THEN {c} ELSE Within[n - 1] \cup Children(Within[n - 1])
    IN  Within[Cardinality(Categories)]

PathsOf(rows) ==
    [d \in Categories |-> IF d \in rows THEN category[d].path ELSE None]

\* _subtree_snapshot without locks
Snapshot(c) == PathsOf(Subtree(c))

\* The rows a request holds between its steps; None is no row.
LocksOf(t) ==
    IF revising[t] = None THEN {}
    ELSE IF "listed" \in DOMAIN revising[t]
    THEN {revising[t].of, revising[t].to} ELSE {revising[t].of}

Locked == UNION {LocksOf(t) : t \in Curators}

LockedByOthers(t) == UNION {LocksOf(u) : u \in Curators \ {t}}

TreeInit ==
    /\ category = [c \in Categories |-> None]
    /\ redirect = [p \in Paths |-> None]
    /\ revising = [t \in Curators |-> None]
    /\ drifted = FALSE
    /\ moves = 0

-----------------------------------------------------------------------------

\* The unique constraints on the path and on the slug below a parent.
Consistent(rows) ==
    \A c, d \in Categories :
        c # d /\ rows[c] # None /\ rows[d] # None =>
            /\ rows[c].path # rows[d].path
            /\ <<rows[c].parent, rows[c].slug>> # <<rows[d].parent, rows[d].slug>>

\* create_category, with the parent locked.
CreateCategory(c, p, s) ==
    /\ category[c] = None
    /\ p # None => p \in Present \ Locked
    /\ Append(PathOf(p), s) \in Paths
    /\ category' = [category EXCEPT ![c] =
           [parent |-> p, slug |-> s, path |-> Append(PathOf(p), s)]]
    /\ Consistent(category')
    /\ UNCHANGED <<redirect, revising, drifted, moves>>

\* update_category up to the save: the row is locked, the parent and the rows
\* below are only read.
BeginRename(t, c, s) ==
    /\ revising[t] = None
    /\ c \in Present \ Locked
    /\ category[c].slug # s
    /\ moves < MaxMoves /\ moves' = moves + 1
    /\ revising' = [revising EXCEPT ![t] =
           [of |-> c, slug |-> s, under |-> PathOf(category[c].parent),
            before |-> Snapshot(c)]]
    /\ UNCHANGED <<category, redirect, drifted>>

\* move_category locks the category first.
BeginMove(t, c, p) ==
    /\ revising[t] = None
    /\ c \in Present \ Locked
    /\ p = None \/ p \in Present
    /\ moves < MaxMoves /\ moves' = moves + 1
    /\ revising' = [revising EXCEPT ![t] = [of |-> c, to |-> p]]
    /\ UNCHANGED <<category, redirect, drifted>>

\* The path that is written for a row that was read: what follows the old
\* path of the category is put behind the new one.
Repathed(before, c, new, d) ==
    new \o SubSeq(before[d], Len(before[c]) + 1, Len(before[d]))

\* Mutant of Rerouted: older redirects keep their target.
ReroutedOnce(old, new) ==
    [p \in Paths |->
        IF \E d \in Categories : old[d] = p /\ new[d] # p
        THEN new[CHOOSE d \in Categories : old[d] = p] ELSE redirect[p]]

\* The redirects of all rows that have moved from `old` to `new`: a redirect
\* from the path that was left is replaced, and the redirects to it are turned
\* to the new path.
Rerouted(old, new) ==
    LET Left(p) == \E d \in Categories : old[d] = p /\ new[d] # p
        To(p)   == new[CHOOSE d \in Categories : old[d] = p]
    IN  [p \in Paths |->
            IF Left(p) THEN To(p)
            ELSE IF redirect[p] # None /\ Left(redirect[p]) THEN To(redirect[p])
            ELSE redirect[p]]

\* Mutant of Below: the descendants are left where they are.
BelowSelf(before, c) == {c}

\* The rows that are rewritten: those that were read.
Below(before, c) == {d \in Categories : before[d] # None}

\* The save and _repath_descendants_and_redirect, for a category c that gets
\* the row `node`.
Repath(before, c, node) ==
    LET rows == Below(before, c)
        new  == [d \in Categories |->
                    IF d \in rows THEN Repathed(before, c, node.path, d) ELSE None]
    IN  /\ \A d \in rows : new[d] \in Paths
        /\ category' = [d \in Categories |->
               IF d = c THEN node
               ELSE IF d \in rows THEN [category[d] EXCEPT !.path = new[d]]
               ELSE category[d]]
        /\ Consistent(category')
        /\ redirect' = Rerouted(before, new)

\* The rest of update_category, once the rows below are free.
FinishRename(t) ==
    /\ revising[t] # None /\ "slug" \in DOMAIN revising[t]
    /\ LET w == revising[t]
           c == w.of
       IN  /\ Below(w.before, c) \cap LockedByOthers(t) = {}
           /\ Repath(w.before, c, [category[c] EXCEPT
                  !.slug = w.slug, !.path = Append(w.under, w.slug)])
           /\ drifted' = \/ drifted
                         \/ w.before # Snapshot(c)
                         \/ w.under # PathOf(category[c].parent)
    /\ revising' = [revising EXCEPT ![t] = None]
    /\ UNCHANGED moves

\* The parent is locked, and the rows below are listed without locks.
ListMove(t) ==
    /\ revising[t] # None
    /\ "to" \in DOMAIN revising[t] /\ "listed" \notin DOMAIN revising[t]
    /\ LET c == revising[t].of
           p == revising[t].to
       IN  /\ p # None => p \notin LockedByOthers(t)
           /\ revising' = [revising EXCEPT ![t] =
                  [of |-> c, to |-> p, listed |-> Subtree(c)]]
    /\ UNCHANGED <<category, redirect, drifted, moves>>

\* _validate_move
MayMove(c, p, listed) ==
    /\ p \notin listed
    /\ \A d \in listed :
          Len(PathOf(p)) + 1 + Len(category[d].path) - Len(category[c].path)
              <= MaxDepth

\* The rest of move_category, once the rows that were listed are free.
FinishMove(t) ==
    /\ revising[t] # None /\ "listed" \in DOMAIN revising[t]
    /\ LET c == revising[t].of
           p == revising[t].to
           listed == revising[t].listed
       IN  /\ listed \cap LockedByOthers(t) = {}
           /\ MayMove(c, p, listed)
           /\ Repath(PathsOf(listed), c, [category[c] EXCEPT
                  !.parent = p, !.path = Append(PathOf(p), category[c].slug)])
           /\ drifted' = (drifted \/ listed # Subtree(c))
    /\ revising' = [revising EXCEPT ![t] = None]
    /\ UNCHANGED moves

\* A check or a constraint fails, or two requests wait for each other.
AbortRevision(t) ==
    /\ revising[t] # None
    /\ revising' = [revising EXCEPT ![t] = None]
    /\ UNCHANGED <<category, redirect, drifted, moves>>

-----------------------------------------------------------------------------

TreeNext ==
    \/ \E c \in Categories, p \in Categories \cup {None}, s \in Slugs :
          CreateCategory(c, p, s)
    \/ \E t \in Curators, c \in Categories :
          \/ \E s \in Slugs : BeginRename(t, c, s)
          \/ \E p \in Categories \cup {None} : BeginMove(t, c, p)
    \/ \E t \in Curators :
          \/ FinishRename(t) \/ AbortRevision(t)
          \/ ListMove(t) \/ FinishMove(t)

TreeSpec == TreeInit /\ [][TreeNext]_treeVars

-----------------------------------------------------------------------------
(* Properties                                                              *)

TreeTypeOK ==
    /\ category \in [Categories -> Nodes \cup {None}]
    /\ redirect \in [Paths -> Paths \cup {None}]
    /\ revising \in [Curators -> Revisions \cup {None}]
    /\ drifted \in BOOLEAN
    /\ moves \in 0..MaxMoves

\* However categories are created, renamed and moved below each other at
\* once they remain a tree, and the path of each is that of its parent and
\* its slug, unless a request rewrote other rows than it should have: it read
\* or listed the rows below, and another changed them before it wrote.
PathsFollowTree ==
    ~drifted => \A c \in Present :
        /\ category[c].parent \notin Subtree(c)
        /\ category[c].path = Append(PathOf(category[c].parent), category[c].slug)

\* The addresses that lead to a page, or with one redirect to one.
Reached ==
    LET live == Live
    IN  {p \in Paths : p \in live \/ redirect[p] \in live}

\* An address that has led to a category goes on leading to one, through
\* any renames and moves of it and of what is above it.
AddressesEndure == [][Reached \subseteq Reached' \/ drifted']_treeVars

\* What validate_category_publication_consistency demands of a release: no
\* redirect leads to an address that is redirected.
RedirectsAreDirect ==
    \A p \in Paths : redirect[p] # None => redirect[redirect[p]] = None
=============================================================================
