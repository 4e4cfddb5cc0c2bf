-------------------------- MODULE ReaderVerification --------------------------
(***************************************************************************)
(* How a reader proves an address: a request on the computer issues a      *)
(* challenge, whose link is mailed, and a device flow; the link is opened  *)
(* on the phone; the computer, which polls the flow, claims a session of   *)
(* its own (reader_interactions/services.py, send_magic_link and           *)
(* cleanup_reader_security_records in reader_interactions/tasks.py).       *)
(*                                                                         *)
(* All requests here are for one address and purpose, so a new one makes   *)
(* the one before it useless.  Its transaction takes no lock to begin      *)
(* with: each of its statements sees what is committed by then, and an     *)
(* UPDATE waits for rows that others hold.  The other operations lock the  *)
(* challenge, then the flow, and are one step each.                        *)
(*                                                                         *)
(* Left out: rate limits, the reader's row (nothing in the repository      *)
(* suspends one), the end of sessions, and the deletion of rows a day      *)
(* after they expired.                                                     *)
(***************************************************************************)
EXTENDS Naturals

CONSTANTS
    Requests,    \* requests; each names its challenge and its flow
    TokenLimit,  \* READER_VERIFICATION_CONSUME_LIMIT
    CodeLimit,   \* READER_DEVICE_FLOW_ATTEMPT_LIMIT
    MaxBounces   \* bound: failures of the broker and of the mail server

ASSUME VerificationAssumption ==
    /\ TokenLimit \in Nat \ {0} /\ CodeLimit \in Nat \ {0}
    /\ MaxBounces \in Nat

VARIABLES
    request,     \* the transactions of request_email_verification
    challenge,   \* EmailVerificationChallenge rows
    flow,        \* ReaderDeviceFlow rows
    mail,        \* what became of the InteractionOutbox row of a request
    mailed,      \* requests whose link has been sent
    agedLinks,   \* challenges past their expires_at
    agedFlows,   \* flows past their expires_at
    sessions,    \* sessions opened by the link and by the claim of a request
    bounces      \* failures of the broker and of the mail server so far

opening == <<request, challenge, flow>>
mailing == <<mail, mailed, bounces>>
ageing  == <<agedLinks, agedFlows>>
verificationVars == <<opening, mailing, ageing, sessions>>

-----------------------------------------------------------------------------

RequestStages == {"new", "listed", "superseded", "picked", "issued", "refused"}

\* `listed` are the challenges found first, `held` the ones superseded, whose
\* rows stay locked, `picked` the flows to supersede.
Request == [stage : RequestStages, listed : SUBSET Requests,
            held : SUBSET Requests, picked : SUBSET Requests, tries : 0..3]

LinkStates == {"none", "issued", "consumed", "expired", "superseded", "blocked"}
FlowStates == {"none", "pending", "approved", "claimed", "expired", "denied",
               "cancelled", "superseded"}
MailStates == {"none", "queued", "published", "dropped"}

Devices == {"phone", "computer"}

Issued == {c \in Requests : challenge[c].status = "issued"}

Free(c) == \A q \in Requests : c \notin request[q].held

VerificationInit ==
    /\ request = [r \in Requests |->
           [stage |-> "new", listed |-> {}, held |-> {}, picked |-> {},
            tries |-> 0]]
    /\ challenge = [c \in Requests |-> [status |-> "none", attempts |-> 0]]
    /\ flow = [c \in Requests |-> [status |-> "none", attempts |-> 0]]
    /\ mail = [c \in Requests |-> "none"]
    /\ mailed = {} /\ agedLinks = {} /\ agedFlows = {}
    /\ sessions = [s \in Requests \X Devices |-> 0]
    /\ bounces = 0

-----------------------------------------------------------------------------
(* request_email_verification                                              *)

\* The transaction begins, again after a conflict.
ListIssued(r) ==
    /\ request[r].stage = "new"
    /\ request' = [request EXCEPT ![r].stage = "listed", ![r].listed = Issued]
    /\ UNCHANGED <<challenge, flow, mailing, ageing, sessions>>

\* Waits while another request holds one of them.
Supersede(r) ==
    /\ request[r].stage = "listed"
    /\ \A c \in Issued : Free(c)
    /\ request' = [request EXCEPT ![r].stage = "superseded", ![r].held = Issued]
    /\ UNCHANGED <<challenge, flow, mailing, ageing, sessions>>

\* Mutant of Picked: every flow of a listed challenge.
PickedAll(r) == request[r].listed

Picked(r) == {c \in request[r].listed : flow[c].status = "pending"}

PickFlows(r) ==
    /\ request[r].stage = "superseded"
    /\ request' = [request EXCEPT ![r].stage = "picked", ![r].picked = Picked(r)]
    /\ UNCHANGED <<challenge, flow, mailing, ageing, sessions>>

\* An uncommitted row of another request that the unique index of issued
\* challenges makes this one wait for.
Waits(r) == \E q \in Requests \ {r} : request[q].held \cap Issued # {}

\* The flows are superseded, whatever they are by now, and the new rows
\* inserted and committed; the message is queued, or the broker fails.
Issue(r) ==
    /\ request[r].stage = "picked"
    /\ ~Waits(r)
    /\ Issued \subseteq request[r].held
    /\ challenge' = [c \in Requests |->
           IF c = r THEN [status |-> "issued", attempts |-> 0]
           ELSE IF c \in request[r].held
                THEN [challenge[c] EXCEPT !.status = "superseded"]
                ELSE challenge[c]]
    /\ flow' = [c \in Requests |->
           IF c = r THEN [status |-> "pending", attempts |-> 0]
           ELSE IF c \in request[r].picked
                THEN [flow[c] EXCEPT !.status = "superseded"]
                ELSE flow[c]]
    /\ request' = [request EXCEPT ![r] =
           [stage |-> "issued", listed |-> {}, held |-> {}, picked |-> {},
            tries |-> @.tries]]
    /\ \/ mail' = [mail EXCEPT ![r] = "queued"] /\ UNCHANGED bounces
       \/ /\ bounces < MaxBounces /\ bounces' = bounces + 1
          /\ mail' = [mail EXCEPT ![r] = "dropped"]
    /\ UNCHANGED <<mailed, ageing, sessions>>

\* Another request has issued a challenge meanwhile: IntegrityError, three
\* times at most.
Conflict(r) ==
    /\ request[r].stage = "picked"
    /\ ~Waits(r)
    /\ ~(Issued \subseteq request[r].held)
    /\ request' = [request EXCEPT ![r] =
           [stage |-> IF @.tries = 2 THEN "refused" ELSE "new",
            listed |-> {}, held |-> {}, picked |-> {}, tries |-> @.tries + 1]]
    /\ UNCHANGED <<challenge, flow, mailing, ageing, sessions>>

-----------------------------------------------------------------------------
(* send_magic_link                                                         *)

\* Holds the event.  The link may be out although the commit fails, and is
\* then sent again.
SendLink(c) ==
    /\ mail[c] = "queued"
    /\ IF challenge[c].status = "issued"
       THEN mailed' = mailed \cup {c}
       ELSE UNCHANGED mailed
    /\ mail' = [mail EXCEPT ![c] = "published"]
    /\ UNCHANGED <<opening, ageing, sessions, bounces>>

SendFails(c) ==
    /\ mail[c] = "queued"
    /\ challenge[c].status = "issued"
    /\ bounces < MaxBounces /\ bounces' = bounces + 1
    /\ mailed' \in {mailed, mailed \cup {c}}
    /\ mail' \in {mail, [mail EXCEPT ![c] = "dropped"]}
    /\ UNCHANGED <<opening, ageing, sessions>>

-----------------------------------------------------------------------------
(* consume_email_verification                                              *)

SetLink(c, status) == challenge' = [challenge EXCEPT ![c].status = status]
SetFlow(c, status) == flow' = [flow EXCEPT ![c].status = status]

\* A wrong guess of a secret, after `limit` of which the row is given up.
Guessed(row, limit, status) ==
    [status   |-> IF row.attempts + 1 >= limit THEN status ELSE row.status,
     attempts |-> row.attempts + 1]

\* The first answer is given again to who opens a consumed link; a superseded
\* or blocked one is refused.
CanOpen(c) == Free(c) /\ challenge[c].status = "issued"

LinkExpired(c) ==
    /\ CanOpen(c) /\ c \in agedLinks
    /\ SetLink(c, "expired")
    /\ UNCHANGED <<request, flow, mailing, ageing, sessions>>

WrongToken(c) ==
    /\ CanOpen(c) /\ c \notin agedLinks
    /\ challenge' = [challenge EXCEPT ![c] = Guessed(@, TokenLimit, "blocked")]
    /\ UNCHANGED <<request, flow, mailing, ageing, sessions>>

\* The link was opened and what follows depends on the flow.
Opens(c) == /\ CanOpen(c) /\ c \in mailed \ agedLinks
            /\ flow[c].status = "pending"

OpenedTooLate(c) ==
    /\ Opens(c) /\ c \in agedFlows
    /\ SetFlow(c, "expired")
    /\ UNCHANGED <<request, challenge, mailing, ageing, sessions>>

WrongCode(c) ==
    /\ Opens(c) /\ c \notin agedFlows
    /\ flow' = [flow EXCEPT ![c] = Guessed(@, CodeLimit, "denied")]
    /\ UNCHANGED <<request, challenge, mailing, ageing, sessions>>

OpensSession(c, device) == sessions' = [sessions EXCEPT ![<<c, device>>] = @ + 1]

\* Mutant of Approved: the challenge stays as it was.
ApprovedOnly(c) == "issued"

\* The challenge that an approved flow leaves.
Approved(c) == "consumed"

Consume(c) ==
    /\ Opens(c) /\ c \notin agedFlows
    /\ SetLink(c, Approved(c))
    /\ SetFlow(c, "approved")
    /\ OpensSession(c, "phone")
    /\ UNCHANGED <<request, mailing, ageing>>

-----------------------------------------------------------------------------
(* The computer, which has the cookie of its flow                          *)

\* Mutant of Claimable: a claim may follow a claim.
ClaimableAgain == {"approved", "claimed"}

\* A flow that is claimed answers with the session it has.
Claimable == {"approved"}

\* claim_device_flow; one that comes too late changes nothing, the exception
\* undoes the expiry.
Claim(c) ==
    /\ flow[c].status \in Claimable
    /\ flow[c].status = "approved" => c \notin agedFlows
    /\ sessions[<<c, "computer">>] < 2
    /\ SetFlow(c, "claimed")
    /\ OpensSession(c, "computer")
    /\ UNCHANGED <<request, challenge, mailing, ageing>>

CancelFlow(c) ==
    /\ flow[c].status = "pending"
    /\ SetFlow(c, "cancelled")
    /\ UNCHANGED <<request, challenge, mailing, ageing, sessions>>

\* get_device_flow_status, and the cleanup, which compares the status again.
ExpireFlow(c) ==
    /\ flow[c].status \in {"pending", "approved"} /\ c \in agedFlows
    /\ SetFlow(c, "expired")
    /\ UNCHANGED <<request, challenge, mailing, ageing, sessions>>

CleanUpLinks ==
    /\ Issued \cap agedLinks # {}
    /\ \A c \in Issued \cap agedLinks : Free(c)
    /\ challenge' = [c \in Requests |->
           IF c \in Issued \cap agedLinks
           THEN [challenge[c] EXCEPT !.status = "expired"] ELSE challenge[c]]
    /\ UNCHANGED <<request, flow, mailing, ageing, sessions>>

LinkAges(c) ==
    /\ challenge[c].status # "none" /\ c \notin agedLinks
    /\ agedLinks' = agedLinks \cup {c}
    /\ UNCHANGED <<opening, mailing, agedFlows, sessions>>

FlowAges(c) ==
    /\ flow[c].status # "none" /\ c \notin agedFlows
    /\ agedFlows' = agedFlows \cup {c}
    /\ UNCHANGED <<opening, mailing, agedLinks, sessions>>

-----------------------------------------------------------------------------

VerificationNext ==
    \/ \E r \in Requests : \/ ListIssued(r) \/ Supersede(r) \/ PickFlows(r)
                           \/ Issue(r) \/ Conflict(r)
    \/ \E c \in Requests :
          \/ SendLink(c) \/ SendFails(c)
          \/ LinkExpired(c) \/ WrongToken(c)
          \/ OpenedTooLate(c) \/ WrongCode(c) \/ Consume(c)
          \/ Claim(c) \/ CancelFlow(c) \/ ExpireFlow(c)
          \/ LinkAges(c) \/ FlowAges(c)
    \/ CleanUpLinks

VerificationSpec == VerificationInit /\ [][VerificationNext]_verificationVars

-----------------------------------------------------------------------------
(* Properties                                                              *)

VerificationTypeOK ==
    /\ request \in [Requests -> Request]
    /\ challenge \in [Requests -> [status : LinkStates, attempts : 0..TokenLimit]]
    /\ flow \in [Requests -> [status : FlowStates, attempts : 0..CodeLimit]]
    /\ mail \in [Requests -> MailStates]
    /\ mailed \subseteq Requests
    /\ agedLinks \subseteq Requests /\ agedFlows \subseteq Requests
    /\ sessions \in [Requests \X Devices -> 0..2]
    /\ bounces \in 0..MaxBounces

\* However requests, openings, claims and retries fall together, a session of
\* the computer goes back to one opening of a link that was mailed, and each
\* link and each flow opens one session.
SessionsAreProved ==
    \A c \in Requests :
        /\ sessions[<<c, "computer">>] <= sessions[<<c, "phone">>]
        /\ sessions[<<c, "phone">>] <= 1
        /\ flow[c].status \in {"approved", "claimed"} =>
               challenge[c].status = "consumed" /\ c \in mailed

\* A new request, which supersedes the flows it found before without looking
\* at them again, never takes back what the phone has approved.
ApprovalSurvives ==
    [][\A c \in Requests :
          /\ flow[c].status = "approved" =>
                 flow'[c].status \in {"approved", "claimed", "expired"}
          /\ flow[c].status = "claimed" => flow'[c].status = "claimed"
      ]_verificationVars
=============================================================================
