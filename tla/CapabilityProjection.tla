------------------------- MODULE CapabilityProjection -------------------------
(***************************************************************************)
(* What readers may do with one article: the policies of its journal and   *)
(* its own (reader_access/services.py), projected by events into the       *)
(* interactions database (reader_access/tasks.py), and guarded meanwhile   *)
(* by a deny marker in Redis (reader_interactions/capabilities.py).        *)
(*                                                                         *)
(* Two kinds of transactions ask for a projection.  A policy change holds  *)
(* the journal's row.  An activation or a rollback of a release does not,  *)
(* so the two overlap, each blind to what the other has not committed.     *)
(* Both write the marker before they commit.                               *)
(*                                                                         *)
(* The PDF half of a policy goes the way of the comments half and is left  *)
(* out.  `listed` is article_is_active as far as the release decides it.   *)
(* Versions come from the clock and are taken to be distinct and in the    *)
(* order of the readings; the terms current + 1 and latest + 1 of the code *)
(* matter only when a clock is put back.                                   *)
(***************************************************************************)
EXTENDS Naturals, Absent

CONSTANTS
    PolicyModes,  \* comment modes that journals are set to
    ArticleModes, \* comment modes that articles are set to
    Releases,     \* numbers of releases
    MaxClock,     \* bound: transactions that compute a projection
    MaxFaults     \* bound: failures of deliveries

Modes == {"open", "read_only", "hidden"}

ASSUME CapabilityAssumption ==
    /\ PolicyModes \subseteq Modes
    /\ ArticleModes \subseteq Modes \cup {"inherit"}
    /\ Releases \subseteq Nat \ {0}
    /\ MaxClock \in Nat /\ MaxFaults \in Nat
    /\ None \notin [version : Nat, policy : Nat, mode : Modes, release : Nat]
    /\ None \notin [payload : [version : Nat, policy : Nat,
                               mode : Modes, release : Nat],
                    journal : [version : Nat, mode : Modes],
                    override : [version : Nat, mode : Modes \cup {"inherit"}],
                    site : [release : Nat, listed : BOOLEAN],
                    marked : BOOLEAN]

VARIABLES
    journal,     \* the JournalInteractionPolicy row
    override,    \* the ArticleInteractionPolicy row
    site,        \* the active release and whether the article is in it
    clock,       \* readings of the clock so far
    change,      \* the policy change under way
    activation,  \* the activation under way
    outbox,      \* committed ControlPlaneOutbox rows, with their delivery
    marker,      \* the desired state in Redis
    projection,  \* the ArticleCapabilityProjection row
    overlapped,  \* history: a change and an activation were once under way
    lost,        \* history: markers of transactions that were rolled back
    faults       \* failed deliveries so far

committed == <<journal, override, site>>
delivery  == <<outbox, marker, projection, faults>>
capabilityVars == <<journal, override, site, clock, change, activation, outbox,
                    marker, projection, overlapped, lost, faults>>

-----------------------------------------------------------------------------

Payloads == [version : 1..MaxClock, policy : Nat, mode : Modes,
             release : Releases \cup {0}]

JournalPolicies == [version : 0..MaxClock, mode : Modes]
Overrides == [version : 0..MaxClock, mode : Modes \cup {"inherit"}]
Sites == [release : Releases \cup {0}, listed : BOOLEAN]

\* A transaction with the rows it is going to commit.
Transactions == [payload : Payloads, journal : JournalPolicies,
                 override : Overrides, site : Sites, marked : BOOLEAN]

Phases == {"queued", "projected", "published", "dropped"}
Events == [payload : Payloads, phase : Phases]

\* _policy_version: the article's version is the lower half of the number.
PolicyVersion(j, o) == j.version * (MaxClock + 1) + o.version

\* Mutant of Mode: the journal's default is what the article overrides.
ModeSwapped(j, o) == IF j.mode = "open" THEN o.mode ELSE j.mode

\* effective_policy
Mode(j, o) == IF o.mode = "inherit" THEN j.mode ELSE o.mode

Wanted(j, o, s, version) ==
    [version |-> version,
     policy  |-> PolicyVersion(j, o),
     mode    |-> IF s.listed THEN Mode(j, o) ELSE "hidden",
     release |-> IF s.listed THEN s.release ELSE 0]

CapabilityInit ==
    /\ journal = [version |-> 0, mode |-> "open"]
    /\ override = [version |-> 0, mode |-> "inherit"]
    /\ site = [release |-> 0, listed |-> FALSE]
    /\ clock = 0
    /\ change = None /\ activation = None
    /\ outbox = {} /\ marker = None /\ projection = None
    /\ overlapped = FALSE /\ lost = {} /\ faults = 0

-----------------------------------------------------------------------------
(* The transactions                                                        *)

\* What a transaction computes from its own rows and the committed others.
Begun(j, o, s) ==
    [payload |-> Wanted(j, o, s, clock + 1),
     journal |-> j, override |-> o, site |-> s, marked |-> FALSE]

\* _write_policy_change, under the journal's row: a new row of either kind.
NewPolicies ==
    {<<[version |-> journal.version + 1, mode |-> m], override>> :
         m \in PolicyModes}
    \cup {<<journal, [version |-> override.version + 1, mode |-> m]>> :
         m \in ArticleModes}

BeginChange ==
    /\ change = None
    /\ clock < MaxClock
    /\ \E p \in NewPolicies : change' = Begun(p[1], p[2], site)
    /\ clock' = clock + 1
    /\ overlapped' = (overlapped \/ activation # None)
    /\ UNCHANGED <<committed, activation, delivery, lost>>

\* The transaction of publish() or rollback(), after sync_articles_to_active_
\* manifest: publish_active_capability_projections.
BeginActivation ==
    /\ activation = None
    /\ clock < MaxClock
    /\ \E s \in [release : Releases \ {site.release}, listed : BOOLEAN] :
           activation' = Begun(journal, override, s)
    /\ clock' = clock + 1
    /\ overlapped' = (overlapped \/ change # None)
    /\ UNCHANGED <<committed, change, delivery, lost>>

\* CapabilityDenyStore.set_many_desired
MarkChange ==
    /\ change # None /\ ~change.marked
    /\ change' = [change EXCEPT !.marked = TRUE]
    /\ marker' = change.payload
    /\ UNCHANGED <<committed, clock, activation, outbox, projection, faults,
                   overlapped, lost>>

MarkActivation ==
    /\ activation # None /\ ~activation.marked
    /\ activation' = [activation EXCEPT !.marked = TRUE]
    /\ marker' = activation.payload
    /\ UNCHANGED <<committed, clock, change, outbox, projection, faults,
                   overlapped, lost>>

Recorded(t) == outbox' = outbox \cup {[payload |-> t.payload,
                                       phase |-> "queued"]}

CommitChange ==
    /\ change # None /\ change.marked
    /\ journal' = change.journal /\ override' = change.override
    /\ Recorded(change)
    /\ change' = None
    /\ UNCHANGED <<site, clock, activation, marker, projection, faults,
                   overlapped, lost>>

CommitActivation ==
    /\ activation # None /\ activation.marked
    /\ site' = activation.site
    /\ Recorded(activation)
    /\ activation' = None
    /\ UNCHANGED <<journal, override, clock, change, marker, projection, faults,
                   overlapped, lost>>

\* An error or a killed process before the commit; Redis keeps the marker.
Abandoned(t) == lost' = IF t.marked THEN lost \cup {t.payload} ELSE lost

RollBackChange ==
    /\ change # None
    /\ Abandoned(change)
    /\ change' = None
    /\ UNCHANGED <<committed, clock, activation, delivery, overlapped>>

RollBackActivation ==
    /\ activation # None
    /\ Abandoned(activation)
    /\ activation' = None
    /\ UNCHANGED <<committed, clock, change, delivery, overlapped>>

-----------------------------------------------------------------------------
(* apply_capability_projection: one worker at a time holds the outbox row. *)

Moved(e, phase) == outbox' = (outbox \ {e}) \cup {[e EXCEPT !.phase = phase]}

\* Mutant of Newer: whatever arrives is written.
Newest(p) == TRUE

Newer(p) == projection = None \/ p.version > projection.version

\* Commits in the interactions database.
Project(e) ==
    /\ e.phase = "queued"
    /\ projection' = IF Newer(e.payload) THEN e.payload ELSE projection
    /\ Moved(e, "projected")
    /\ UNCHANGED <<committed, clock, change, activation, marker, overlapped,
                   lost, faults>>

\* Mutant of Cleared: deletes whatever marker there is.
ClearedAny(p) == None

\* clear_if_matches
Cleared(p) == IF marker = p THEN None ELSE marker

\* The marker goes first; mark_published then commits, or fails, in the
\* default database.
Clear(e) ==
    /\ e.phase = "projected"
    /\ marker' = Cleared(e.payload)
    /\ \/ Moved(e, "published") /\ UNCHANGED faults
       \/ /\ faults < MaxFaults /\ faults' = faults + 1
          /\ \E phase \in {"queued", "dropped"} : Moved(e, phase)
    /\ UNCHANGED <<committed, clock, change, activation, projection, overlapped,
                   lost>>

\* The task fails on the way and is retried from the start; a message that is
\* lost or has failed too often waits for reconcile_capability_projections,
\* which nothing in the repository schedules.
Fail(e) ==
    /\ e.phase \in {"queued", "projected"}
    /\ faults < MaxFaults
    /\ faults' = faults + 1
    /\ \E phase \in {"queued", "dropped"} \ {e.phase} : Moved(e, phase)
    /\ UNCHANGED <<committed, clock, change, activation, marker, projection,
                   overlapped, lost>>

Reconcile(e) ==
    /\ e.phase = "dropped"
    /\ Moved(e, "queued")
    /\ UNCHANGED <<committed, clock, change, activation, marker, projection,
                   overlapped, lost, faults>>

-----------------------------------------------------------------------------

CapabilityNext ==
    \/ BeginChange \/ MarkChange \/ CommitChange \/ RollBackChange
    \/ BeginActivation \/ MarkActivation
    \/ CommitActivation \/ RollBackActivation
    \/ \E e \in outbox : \/ Project(e) \/ Clear(e)
                         \/ Fail(e) \/ Reconcile(e)

\* A transaction ends one way or the other and a queued task is run.
CapabilityFairness ==
    /\ WF_capabilityVars(\/ MarkChange \/ CommitChange
                         \/ MarkActivation \/ CommitActivation)
    /\ WF_capabilityVars(\E e \in outbox : Project(e) \/ Clear(e))

CapabilitySpec ==
    CapabilityInit /\ [][CapabilityNext]_capabilityVars /\ CapabilityFairness

-----------------------------------------------------------------------------
(* What the readers' requests make of it                                   *)

\* Mutant of AcceptsComment: only the projection is looked at.
AcceptsProjected ==
    /\ projection # None
    /\ projection.release # 0
    /\ projection.mode = "open"

\* _lock_projection for a comment written on a page that shows the policy
\* version of the projection: any other version is refused.
AcceptsComment ==
    /\ projection # None
    /\ projection.release # 0
    /\ marker # None => marker.policy <= projection.policy
    /\ IF marker # None /\ marker.policy = projection.policy
       THEN marker.mode = "open" ELSE projection.mode = "open"

-----------------------------------------------------------------------------
(* Properties                                                              *)

CapabilityTypeOK ==
    /\ journal \in JournalPolicies /\ override \in Overrides
    /\ site \in Sites
    /\ clock \in 0..MaxClock
    /\ change \in Transactions \cup {None}
    /\ activation \in Transactions \cup {None}
    /\ outbox \subseteq Events
    /\ marker \in Payloads \cup {None}
    /\ projection \in Payloads \cup {None}
    /\ overlapped \in BOOLEAN
    /\ lost \subseteq Payloads
    /\ faults \in 0..MaxFaults

\* As soon as a policy that closes the comments is committed no comment is
\* accepted, however late, often or out of order the events are delivered and
\* whatever was rolled back: as long as no activation overlapped a change.
CommentsFollowPolicy ==
    ~overlapped /\ AcceptsComment =>
        /\ Mode(journal, override) = "open"
        /\ projection.policy = PolicyVersion(journal, override)

\* Readers are not kept waiting for ever: in the end nothing but a message
\* that was dropped or a marker of a rolled-back transaction is left, and if no
\* two transactions overlapped and everything was delivered, in whatever order,
\* the projection is what the committed rows ask for.
Settles ==
    <>[](/\ change = None /\ activation = None
         /\ \A e \in outbox : e.phase \in {"published", "dropped"}
         /\ marker # None => \/ marker \in lost
                             \/ \E e \in outbox : e.payload = marker
                                                  /\ e.phase = "dropped"
         /\ ~overlapped /\ outbox # {} /\ (\A e \in outbox : e.phase = "published")
            => projection = Wanted(journal, override, site, projection.version))
=============================================================================
