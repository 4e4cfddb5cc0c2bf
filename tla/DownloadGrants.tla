---------------------------- MODULE DownloadGrants ---------------------------
(***************************************************************************)
(* Downloads of the protected PDF of one article                           *)
(* (reader_interactions/downloads.py): a reader asks for a grant, and asks *)
(* with it for the file.  Both requests read the article, then the active  *)
(* release with its manifest locked, then the projection of the policy and *)
(* the deny marker (reader_interactions/capabilities.py), while editors    *)
(* withdraw the article, change the policy and activate other releases.    *)
(*                                                                         *)
(* ProtectedPdfs has how a release gets its PDF: here it has one, whole,   *)
(* of the revision that was approved when its manifest was prepared.       *)
(* CapabilityProjection has the steps of a delivery and the transactions   *)
(* that overlap; here those that publish a projection follow one another,  *)
(* and their events are applied in any order and any number of times.      *)
(***************************************************************************)
EXTENDS Naturals, Sequences, Absent

CONSTANTS
    MaxPrepared,     \* bound: releases prepared
    MaxReviews,      \* bound: final approvals
    MaxProjections   \* bound: transactions that publish a projection

ASSUME GrantBounds ==
    MaxPrepared \in Nat /\ MaxReviews \in Nat /\ MaxProjections \in Nat

VARIABLES
    revision,    \* approved_version by number, 0 if there is none
    reviews,     \* final approvals so far
    withdrawn,   \* history: the last revision whose approval was withdrawn
    listed,      \* PUBLISHED, with the active release as published_version
    enabled,     \* the download policy of journal and article
    prepared,    \* releases, with their page and their protected manifest
    active,      \* the active release, 0 if there is none
    activating,  \* the transaction of an activation or a rollback
    changing,    \* the transaction of a policy change
    versions,    \* projections computed so far
    published,   \* payloads of committed projection events
    desired,     \* the deny marker in Redis
    capability,  \* the ArticleCapabilityProjection row
    grant,       \* the reader's DownloadGrant
    download     \* the request for a grant, or with one, under way

rows      == <<revision, reviews, withdrawn, listed, enabled, prepared, active>>
opened    == <<activating, changing, versions>>
projected == <<published, desired, capability>>
grantVars == <<rows, opened, projected, grant, download>>

-----------------------------------------------------------------------------

Approvals == 0..MaxReviews

\* A release: whether the article has a page in it, the revision of its PDF,
\* 0 if it has none, and whether it was ever activated.
Prepared == [page : BOOLEAN, file : Approvals, activated : BOOLEAN]

\* A projection: its version, and the release, revision and artifact it names.
\* An artifact goes by its release; downloads are enabled if there is one.
Projections == [version : 1..MaxProjections, release : 0..MaxPrepared,
                revision : Approvals, artifact : 0..MaxPrepared]

\* No projection is taken for the absence of one.
ASSUME GrantRows == None \notin Projections

Activations == [release : 1..MaxPrepared, payload : Projections]

\* One that has expired is as good as none: whoever asks again with the same key
\* is refused, and with another one gets a new grant.
Grants == [release : 1..MaxPrepared, status : {"issued", "consumed"}]

\* A request with what it has read of the article and of the projection.
\* History: what had been withdrawn when it began, and whether the policy has
\* allowed downloads at any time since.
Downloads == [kind : {"issue", "consume"},
              stage : {"article", "projection", "marker"},
              revision : Approvals \ {0}, release : 1..MaxPrepared,
              seen : Projections \cup {None},
              withdrawn : Approvals, allowed : BOOLEAN]

GrantInit ==
    /\ revision = 0 /\ reviews = 0 /\ withdrawn = 0
    /\ listed = FALSE /\ enabled = TRUE
    /\ prepared = <<>> /\ active = 0
    /\ activating = None /\ changing = None /\ versions = 0
    /\ published = {} /\ desired = None /\ capability = None
    /\ grant = None /\ download = None

-----------------------------------------------------------------------------
(* Reviews: no projection is published for them.  An activation holds the  *)
(* rows of all articles.                                                   *)

\* final_review_article; the article is not PUBLISHED before it is activated.
FinishReview ==
    /\ revision = 0 /\ activating = None
    /\ reviews < MaxReviews
    /\ revision' = reviews + 1 /\ reviews' = reviews + 1
    /\ UNCHANGED <<withdrawn, listed, enabled, prepared, active, opened,
                   projected, grant, download>>

\* Mutant of ResetReview: the edited article keeps its approval and its status.
ResetNothing == UNCHANGED <<revision, listed>>

\* ArticlePage.save of an edited article
ResetReview == revision' = 0 /\ listed' = FALSE

EditArticle ==
    /\ revision # 0 /\ activating = None
    /\ ResetReview
    /\ withdrawn' = revision
    /\ UNCHANGED <<reviews, enabled, prepared, active, opened, projected,
                   grant, download>>

-----------------------------------------------------------------------------
(* Releases and projections                                                *)

\* effective_policy in release r, whose pair is activated
Effective(on, r, isActive) ==
    [version  |-> versions + 1,
     release  |-> IF isActive THEN r ELSE 0,
     revision |-> revision,
     artifact |-> IF on /\ isActive /\ prepared[r].file = revision THEN r ELSE 0]

\* A build up to the validated protected manifest, which lists the article if
\* it has a page in the release, is approved and its PDFs are offered.
PrepareRelease(page) ==
    /\ Len(prepared) < MaxPrepared
    /\ prepared' = Append(prepared,
           [page |-> page, file |-> IF page /\ enabled THEN revision ELSE 0,
            activated |-> FALSE])
    /\ UNCHANGED <<revision, reviews, withdrawn, listed, enabled, active,
                   opened, projected, grant, download>>

\* The transaction of a build, or of a rollback to a release with an activated
\* pair, has locked the active manifest and the articles, has computed the
\* projection (publish_active_capability_projections) and marked it.
OpenActivation(r) ==
    /\ activating = None /\ changing = None
    /\ download # None => download.stage = "article"
    /\ r = Len(prepared) \/ prepared[r].activated
    /\ versions < MaxProjections
    /\ versions' = versions + 1
    /\ LET p == Effective(enabled, r, prepared[r].page /\ revision # 0)
       IN  /\ activating' = [release |-> r, payload |-> p]
           /\ desired' = p
    /\ UNCHANGED <<rows, changing, published, capability, grant, download>>

\* The manifests, the article (sync_articles_to_active_manifest) and the event.
CommitActivated ==
    /\ activating # None
    /\ LET r == activating.release IN
       /\ active' = r
       /\ listed' = prepared[r].page
       /\ prepared' = [prepared EXCEPT ![r].activated = TRUE]
    /\ published' = published \cup {activating.payload}
    /\ activating' = None
    /\ UNCHANGED <<revision, reviews, withdrawn, enabled, changing, versions,
                   desired, capability, grant, download>>

\* _write_policy_change: the marker is written first.
OpenChange ==
    /\ activating = None /\ changing = None
    /\ versions < MaxProjections
    /\ versions' = versions + 1
    /\ LET p == Effective(~enabled, active, listed /\ revision # 0)
       IN  changing' = p /\ desired' = p
    /\ UNCHANGED <<rows, activating, published, capability, grant, download>>

CommitPolicy ==
    /\ changing # None
    /\ enabled' = ~enabled
    /\ published' = published \cup {changing}
    /\ changing' = None
    /\ download' = IF download # None /\ enabled'
                   THEN [download EXCEPT !.allowed = TRUE] ELSE download
    /\ UNCHANGED <<revision, reviews, withdrawn, listed, prepared, active,
                   activating, versions, desired, capability, grant>>

\* An error, or a process that is killed: the marker stays.
RollBackTransaction ==
    /\ activating # None \/ changing # None
    /\ activating' = None /\ changing' = None
    /\ UNCHANGED <<rows, versions, projected, grant, download>>

Fresh(p) == capability = None \/ p.version > capability.version

\* apply_capability_projection, and clear_if_matches after it
ApplyProjection(p) ==
    /\ capability' = IF Fresh(p) THEN p ELSE capability
    /\ desired' = IF desired = p THEN None ELSE desired
    /\ UNCHANGED <<rows, opened, published, grant, download>>

-----------------------------------------------------------------------------
(* issue_download_grant and consume_filesystem_grant: one at a time, since *)
(* each holds the row of the reader or of the grant.                       *)

\* _active_artifact reads the article without a lock; one that is not approved
\* or not PUBLISHED is refused.
BeginDownload(kind) ==
    /\ download = None
    /\ revision # 0 /\ listed
    /\ kind = "consume" => grant # None /\ grant.status = "issued"
    /\ download' = [kind |-> kind, stage |-> "article", revision |-> revision,
                    release |-> active, seen |-> None, withdrawn |-> withdrawn,
                    allowed |-> enabled]
    /\ UNCHANGED <<rows, opened, projected, grant>>

\* The rest of _active_artifact, with the active manifest locked, and the first
\* reading of the projection (get_effective_capabilities).
LockActive ==
    /\ download # None /\ download.stage = "article"
    /\ activating = None
    /\ download.release = active
    /\ prepared[active].file = download.revision
    /\ download' = [download EXCEPT !.stage = "projection",
                                    !.seen = capability]
    /\ UNCHANGED <<rows, opened, projected, grant>>

\* A marker newer than the projection denies whatever it says.
Denied(p) ==
    /\ desired # None
    /\ \/ desired.version > p.version
       \/ desired.version = p.version /\ desired.artifact = 0

ReadDesired ==
    /\ download # None /\ download.stage = "projection"
    /\ LET p == download.seen IN
       /\ p # None
       /\ p.release = active /\ p.artifact # 0
       /\ ~Denied(p)
    /\ download' = [download EXCEPT !.stage = "marker"]
    /\ UNCHANGED <<rows, opened, projected, grant>>

\* Mutant of Confirmed: the projection is not read a second time.
ConfirmedOnce == TRUE

\* The end of _capability_allows: the projection as it is by now.
Confirmed ==
    /\ capability.artifact = active
    /\ capability.revision = prepared[active].file

\* A repeated request is given the grant it was given before.
HandOut ==
    /\ download # None /\ download.stage = "marker"
    /\ Confirmed
    /\ grant # None => grant.release = active
    /\ grant' = IF download.kind = "consume"
                THEN [grant EXCEPT !.status = "consumed"]
                ELSE IF grant = None
                THEN [release |-> active, status |-> "issued"] ELSE grant
    /\ download' = None
    /\ UNCHANGED <<rows, opened, projected>>

\* A check that fails, the limit of requests, Redis or the storage out of reach.
RefuseDownload ==
    /\ download # None
    /\ download' = None
    /\ UNCHANGED <<rows, opened, projected, grant>>

\* Its time passes; a request under way has looked at the time before.
ExpireGrant ==
    /\ grant # None /\ download = None
    /\ grant' = None
    /\ UNCHANGED <<rows, opened, projected, download>>

-----------------------------------------------------------------------------

GrantNext ==
    \/ FinishReview \/ EditArticle
    \/ \E page \in BOOLEAN : PrepareRelease(page)
    \/ \E r \in 1..Len(prepared) : OpenActivation(r)
    \/ CommitActivated
    \/ OpenChange \/ CommitPolicy \/ RollBackTransaction
    \/ \E p \in published : ApplyProjection(p)
    \/ \E kind \in {"issue", "consume"} : BeginDownload(kind)
    \/ LockActive \/ ReadDesired \/ HandOut \/ RefuseDownload \/ ExpireGrant

GrantSpec == GrantInit /\ [][GrantNext]_grantVars

-----------------------------------------------------------------------------
(* Properties                                                              *)

GrantTypeOK ==
    /\ revision \in {0, reviews} /\ reviews \in Approvals
    /\ withdrawn \in Approvals
    /\ listed \in BOOLEAN /\ enabled \in BOOLEAN
    /\ prepared \in Seq(Prepared) /\ Len(prepared) <= MaxPrepared
    /\ active \in 0..Len(prepared)
    /\ activating \in Activations \cup {None}
    /\ changing \in Projections \cup {None}
    /\ versions \in 0..MaxProjections
    /\ published \subseteq Projections
    /\ desired \in Projections \cup {None}
    /\ capability \in Projections \cup {None}
    /\ grant \in Grants \cup {None}
    /\ download \in Downloads \cup {None}

\* An article that was edited is not handed out any more: the PDF is of a
\* revision whose approval stood when the request began, though no projection
\* is published for an edit.
WithdrawnIsNotHanded ==
    [][HandOut => prepared[active].file > download.withdrawn]_grantVars

\* Nor is one whose downloads are closed: whoever is given a grant, or a file
\* for it, began to ask while they were open, or they were opened since; however
\* late and often the events are applied and whatever was rolled back.
ClosedIsNotHanded == [][HandOut => download.allowed]_grantVars
=============================================================================
