------------------------ MODULE ReaderAccess_proofs -------------------------
(***************************************************************************)
(* Proofs about CapabilityProjection and ReaderVerification, for any       *)
(* values of their constants, and the types of the run that checks them    *)
(* with the other parts of the reader services.                            *)
(*                                                                         *)
(* CommentsFollowPolicy rests on the order of the events: as long as no    *)
(* two transactions overlapped, a later event is of no older a policy, and *)
(* where a policy is not projected yet there is a marker of it.            *)
(*                                                                         *)
(* SessionsAreProved and ApprovalSurvives rest on the links that requests  *)
(* hold locked being apart, and on the flows that are superseded unseen    *)
(* belonging to links that are held or that nobody can open any more.      *)
(***************************************************************************)
EXTENDS MC_ReaderServices, Comments_proofs, ProtectedDownloads_proofs

-----------------------------------------------------------------------------
(* What readers may do with an article: the comments follow the policy.    *)

\* The policy version of what is committed.
Policy == PolicyVersion(journal, override)

\* A payload that opens the comments is about rows that do.
Faithful(p, j, o) == p.mode = "open" => Mode(j, o) = "open"

CapabilityTypes ==
    /\ CapabilityTypeOK
    /\ journal.version <= clock /\ override.version <= clock
    /\ change # None => /\ change.journal.version <= clock
                        /\ change.override.version <= clock

\* A transaction under way computes from the committed rows and has the
\* latest version of all; its marker stays.
Serial(t) ==
    t # None =>
        /\ t.payload.policy = PolicyVersion(t.journal, t.override)
        /\ Faithful(t.payload, t.journal, t.override)
        /\ t.payload.version <= clock
        /\ \A e \in outbox : e.payload.version < t.payload.version
        /\ t.marked => marker = t.payload

\* The events are in the order of the policies, none is ahead of what is
\* committed, and one that was delivered is not ahead of the projection.
EventsOK ==
    \A e \in outbox :
        /\ e.payload.version <= clock
        /\ e.payload.policy <= Policy
        /\ e.payload.policy = Policy => Faithful(e.payload, journal, override)
        /\ e.phase \in {"projected", "published"} =>
               projection # None /\ projection.version >= e.payload.version
        /\ \A f \in outbox : e.payload.version <= f.payload.version =>
               e.payload.policy <= f.payload.policy

\* The marker is not behind what is committed, and where there is none the
\* projection is not.
MarkerOK ==
    /\ projection # None => \E e \in outbox : e.payload = projection
    /\ marker # None =>
           /\ marker.policy >= Policy
           /\ marker.policy = Policy => Faithful(marker, journal, override)
    /\ marker = None /\ outbox # {} =>
           projection # None /\ projection.policy = Policy

CapabilityInv ==
    /\ CapabilityTypes
    /\ ~overlapped =>
           /\ change = None \/ activation = None
           /\ Serial(change) /\ Serial(activation)
           /\ change # None => change.payload.policy > Policy
           /\ activation # None => /\ activation.journal = journal
                                   /\ activation.override = override
           /\ EventsOK /\ MarkerOK

\* A policy version is a number, and a new row of either kind raises it.
LEMMA PolicyRises ==
    ASSUME NEW a \in Nat, NEW b \in Nat
    PROVE  /\ a * (MaxClock + 1) + b \in Nat
           /\ (a + 1) * (MaxClock + 1) + b > a * (MaxClock + 1) + b
           /\ a * (MaxClock + 1) + (b + 1) > a * (MaxClock + 1) + b
  <1>1. MaxClock + 1 \in Nat /\ MaxClock + 1 > 0
    BY CapabilityAssumption
  <1>2. PICK m \in Nat : m = MaxClock + 1 /\ m > 0
    BY <1>1
  <1>3. a * m \in Nat
    BY <1>2
  <1>4. (a + 1) * m = a * m + m
    BY <1>2
  <1>5. PICK x \in Nat : x = a * m
    BY <1>3
  <1> QED BY <1>2, <1>4, <1>5

\* What a transaction wants of the rows it is going to commit.
LEMMA WantedPayload ==
    ASSUME NEW j \in JournalPolicies, NEW o \in Overrides, NEW s \in Sites,
           NEW version \in 1..MaxClock
    PROVE  /\ Wanted(j, o, s, version) \in Payloads
           /\ Wanted(j, o, s, version).version = version
           /\ Wanted(j, o, s, version).policy = PolicyVersion(j, o)
           /\ Faithful(Wanted(j, o, s, version), j, o)
  <1>1. PolicyVersion(j, o) \in Nat
    BY PolicyRises, CapabilityAssumption
       DEF PolicyVersion, JournalPolicies, Overrides
  <1>2. Mode(j, o) \in Modes
    BY DEF Mode, JournalPolicies, Overrides
  <1>3. PICK mode \in Modes : mode = IF s.listed THEN Mode(j, o) ELSE "hidden"
    BY <1>2 DEF Modes
  <1>4. PICK release \in Releases \cup {0} :
            release = IF s.listed THEN s.release ELSE 0
    BY DEF Sites
  <1>5. PICK policy \in Nat : policy = PolicyVersion(j, o)
    BY <1>1
  <1>6. Wanted(j, o, s, version) = [version |-> version, policy |-> policy,
                                    mode |-> mode, release |-> release]
    BY <1>3, <1>4, <1>5 DEF Wanted
  <1>7. mode = "open" => Mode(j, o) = "open"
    BY <1>3
  <1> QED BY <1>5, <1>6, <1>7 DEF Payloads, Faithful

\* A transaction is not None.
LEMMA TransactionsAreSome == None \notin Transactions /\ None \notin Payloads
  <1>0. 0..MaxClock \subseteq Nat /\ 1..MaxClock \subseteq Nat
        /\ Releases \cup {0} \subseteq Nat
    BY CapabilityAssumption
  <1>1. Payloads \subseteq [version : Nat, policy : Nat, mode : Modes,
                            release : Nat]
    BY <1>0 DEF Payloads
  <1>2. Transactions \subseteq
            [payload : [version : Nat, policy : Nat, mode : Modes,
                        release : Nat],
             journal : [version : Nat, mode : Modes],
             override : [version : Nat, mode : Modes \cup {"inherit"}],
             site : [release : Nat, listed : BOOLEAN],
             marked : BOOLEAN]
    <2>1. /\ JournalPolicies \subseteq [version : Nat, mode : Modes]
          /\ Overrides \subseteq [version : Nat, mode : Modes \cup {"inherit"}]
          /\ Sites \subseteq [release : Nat, listed : BOOLEAN]
      BY <1>0 DEF JournalPolicies, Overrides, Sites
    <2> QED BY <1>1, <2>1 DEF Transactions
  <1> QED BY <1>1, <1>2, CapabilityAssumption

\* What begins with given rows is a transaction.
LEMMA BegunTransaction ==
    ASSUME clock \in Nat, clock < MaxClock, NEW j \in JournalPolicies,
           NEW o \in Overrides, NEW s \in Sites
    PROVE  \E t \in Transactions :
               /\ t = Begun(j, o, s) /\ t # None
               /\ t.payload \in Payloads
               /\ t.payload.version = clock + 1
               /\ t.payload.policy = PolicyVersion(j, o)
               /\ Faithful(t.payload, j, o)
               /\ t.journal = j /\ t.override = o /\ ~t.marked
  <1>1. clock + 1 \in 1..MaxClock
    BY CapabilityAssumption
  <1>2. PICK p : p = Wanted(j, o, s, clock + 1)
    OBVIOUS
  <1>3. /\ p \in Payloads /\ p.version = clock + 1
        /\ p.policy = PolicyVersion(j, o) /\ Faithful(p, j, o)
    BY <1>1, <1>2, WantedPayload
  <1>4. Begun(j, o, s) = [payload |-> p, journal |-> j, override |-> o,
                          site |-> s, marked |-> FALSE]
    BY <1>2 DEF Begun
  <1>5. PICK t : t = [payload |-> p, journal |-> j, override |-> o,
                      site |-> s, marked |-> FALSE]
    OBVIOUS
  <1>6. /\ t \in Transactions /\ t.payload = p
        /\ t.journal = j /\ t.override = o /\ ~t.marked
    BY <1>3, <1>5 DEF Transactions
  <1> QED BY <1>3, <1>4, <1>5, <1>6, TransactionsAreSome

\* A change begins with new rows.
LEMMA ChangeBegins ==
    ASSUME CapabilityInv, BeginChange PROVE CapabilityInv'
  <1>0. CapabilityTypes
    BY DEF CapabilityInv
  <1>1. PICK p \in NewPolicies : change' = Begun(p[1], p[2], site)
    BY DEF BeginChange
  <1>2. PICK j, o : j = p[1] /\ o = p[2]
    OBVIOUS
  <1>3. clock \in Nat /\ clock < MaxClock /\ clock' = clock + 1
        /\ clock' \in 0..MaxClock
    BY <1>0, CapabilityAssumption
       DEF BeginChange, CapabilityTypes, CapabilityTypeOK
  <1>4. \/ \E m \in PolicyModes :
              j = [version |-> journal.version + 1, mode |-> m] /\ o = override
        \/ \E m \in ArticleModes :
              j = journal /\ o = [version |-> override.version + 1, mode |-> m]
    BY <1>2 DEF NewPolicies
  <1>5. journal \in JournalPolicies /\ override \in Overrides /\ site \in Sites
        /\ journal.version \in Nat /\ override.version \in Nat
        /\ journal.version <= clock /\ override.version <= clock
    BY <1>0, CapabilityAssumption
       DEF CapabilityTypes, CapabilityTypeOK, JournalPolicies, Overrides
  <1>6. /\ j \in JournalPolicies /\ o \in Overrides
        /\ j.version <= clock' /\ o.version <= clock'
    <2>1. ASSUME NEW m \in PolicyModes,
                 j = [version |-> journal.version + 1, mode |-> m]
          PROVE  j \in JournalPolicies /\ j.version <= clock'
      BY <1>3, <1>5, <2>1, CapabilityAssumption DEF JournalPolicies
    <2>2. ASSUME NEW m \in ArticleModes,
                 o = [version |-> override.version + 1, mode |-> m]
          PROVE  o \in Overrides /\ o.version <= clock'
      BY <1>3, <1>5, <2>2, CapabilityAssumption DEF Overrides
    <2> QED BY <1>3, <1>4, <1>5, <2>1, <2>2
  <1>7. PolicyVersion(j, o) > Policy
    <2>1. \/ j.version = journal.version + 1 /\ o.version = override.version
          \/ j.version = journal.version /\ o.version = override.version + 1
      BY <1>4
    <2> QED BY <1>5, <2>1, PolicyRises DEF PolicyVersion, Policy
  <1>8. /\ change' \in Transactions /\ change' # None
        /\ change'.payload.version = clock'
        /\ change'.payload.policy = PolicyVersion(j, o)
        /\ Faithful(change'.payload, j, o)
        /\ change'.journal = j /\ change'.override = o
        /\ ~change'.marked
    <2>1. change' = Begun(j, o, site)
      BY <1>1, <1>2
    <2> QED BY <1>3, <1>5, <1>6, <2>1, BegunTransaction
  <1>9. /\ UNCHANGED <<journal, override, site, activation, outbox, marker,
                       projection, faults, lost>>
        /\ overlapped' = (overlapped \/ activation # None)
    BY DEF BeginChange, committed, delivery
  <1>10. overlapped' \in BOOLEAN
    BY <1>9, Zenon
  <1>11. CapabilityTypes'
    BY <1>0, <1>3, <1>5, <1>6, <1>8, <1>9, <1>10
       DEF CapabilityTypes, CapabilityTypeOK
  <1>12. ASSUME ~overlapped'
         PROVE  /\ change' = None \/ activation' = None
                /\ Serial(change)' /\ Serial(activation)'
                /\ (change # None => change.payload.policy > Policy)'
                /\ (activation # None => /\ activation.journal = journal
                                         /\ activation.override = override)'
                /\ EventsOK' /\ MarkerOK'
    <2>1. ~overlapped /\ activation = None
      BY <1>9, <1>12
    <2>2. EventsOK /\ MarkerOK
      BY <2>1 DEF CapabilityInv
    <2>3. \A e \in outbox : e.payload.version \in Nat
      BY <1>0, CapabilityAssumption
         DEF CapabilityTypes, CapabilityTypeOK, Events, Payloads
    <2>4. EventsOK' /\ MarkerOK' /\ Policy' = Policy
      BY <1>3, <1>9, <2>2, <2>3
         DEF EventsOK, MarkerOK, Policy, PolicyVersion, Faithful, Mode
    <2>5. \A e \in outbox : e.payload.version < clock'
      BY <1>3, <2>2, <2>3 DEF EventsOK
    <2>6. clock' <= clock'
      BY <1>3
    <2>7. Serial(change)'
      BY <1>8, <1>9, <2>5, <2>6 DEF Serial
    <2> QED BY <1>7, <1>8, <1>9, <2>1, <2>4, <2>7 DEF Serial
  <1> QED BY <1>11, <1>12 DEF CapabilityInv

\* An activation begins with another release.
LEMMA ActivationBegins ==
    ASSUME CapabilityInv, BeginActivation PROVE CapabilityInv'
  <1>0. CapabilityTypes
    BY DEF CapabilityInv
  <1>1. PICK s \in Sites : activation' = Begun(journal, override, s)
    BY DEF BeginActivation, Sites
  <1>2. clock \in Nat /\ clock < MaxClock /\ clock' = clock + 1
        /\ clock' \in 0..MaxClock
    BY <1>0, CapabilityAssumption
       DEF BeginActivation, CapabilityTypes, CapabilityTypeOK
  <1>3. journal \in JournalPolicies /\ override \in Overrides
        /\ journal.version \in Nat /\ override.version \in Nat
        /\ (change # None => /\ change.journal.version \in Nat
                             /\ change.override.version \in Nat)
    BY <1>0, CapabilityAssumption
       DEF CapabilityTypes, CapabilityTypeOK, JournalPolicies, Overrides,
           Transactions
  <1>4. /\ activation' \in Transactions /\ activation' # None
        /\ activation'.payload.version = clock'
        /\ activation'.payload.policy = PolicyVersion(journal, override)
        /\ Faithful(activation'.payload, journal, override)
        /\ activation'.journal = journal /\ activation'.override = override
        /\ ~activation'.marked
    BY <1>1, <1>2, <1>3, BegunTransaction
  <1>5. /\ UNCHANGED <<journal, override, site, change, outbox, marker,
                       projection, faults, lost>>
        /\ overlapped' = (overlapped \/ change # None)
    BY DEF BeginActivation, committed, delivery
  <1>6. overlapped' \in BOOLEAN
    BY <1>5, Zenon
  <1>7. CapabilityTypes'
    BY <1>0, <1>2, <1>3, <1>4, <1>5, <1>6
       DEF CapabilityTypes, CapabilityTypeOK
  <1>8. ASSUME ~overlapped'
        PROVE  /\ change' = None \/ activation' = None
               /\ Serial(change)' /\ Serial(activation)'
               /\ (change # None => change.payload.policy > Policy)'
               /\ (activation # None => /\ activation.journal = journal
                                        /\ activation.override = override)'
               /\ EventsOK' /\ MarkerOK'
    <2>1. ~overlapped /\ change = None
      BY <1>5, <1>8
    <2>2. EventsOK /\ MarkerOK
      BY <2>1 DEF CapabilityInv
    <2>3. \A e \in outbox : e.payload.version \in Nat
      BY <1>0, CapabilityAssumption
         DEF CapabilityTypes, CapabilityTypeOK, Events, Payloads
    <2>4. EventsOK' /\ MarkerOK'
      BY <1>2, <1>5, <2>2, <2>3
         DEF EventsOK, MarkerOK, Policy, PolicyVersion, Faithful, Mode
    <2>5. \A e \in outbox : e.payload.version < clock'
      BY <1>2, <2>2, <2>3 DEF EventsOK
    <2>6. clock' <= clock'
      BY <1>2
    <2>7. Serial(activation)'
      BY <1>4, <1>5, <2>5, <2>6 DEF Serial
    <2> QED BY <1>4, <1>5, <2>1, <2>4, <2>7 DEF Serial
  <1> QED BY <1>7, <1>8 DEF CapabilityInv

-----------------------------------------------------------------------------

\* An event that moves keeps its payload, and no payload comes or goes.
LEMMA MovedEvents ==
    ASSUME NEW e \in outbox, NEW phase \in Phases, outbox \subseteq Events,
           Moved(e, phase)
    PROVE  /\ outbox' \subseteq Events
           /\ \A f \in outbox : \E g \in outbox' : g.payload = f.payload
           /\ \A g \in outbox' :
                  \/ g \in outbox
                  \/ g.payload = e.payload /\ g.phase = phase
  <1>1. PICK m : m = [e EXCEPT !.phase = phase]
    OBVIOUS
  <1>2. m \in Events /\ m.payload = e.payload /\ m.phase = phase
    BY <1>1 DEF Events
  <1>3. outbox' = (outbox \ {e}) \cup {m}
    BY <1>1 DEF Moved
  <1> QED BY <1>2, <1>3

\* Payloads carry numbers.
LEMMA PayloadNumbers ==
    ASSUME CapabilityTypeOK
    PROVE  /\ \A e \in outbox : /\ e.payload \in Payloads
                                /\ e.payload.version \in Nat
                                /\ e.payload.policy \in Nat
           /\ projection # None => /\ projection.version \in Nat
                                   /\ projection.policy \in Nat
           /\ marker # None => /\ marker.version \in Nat
                               /\ marker.policy \in Nat
           /\ Policy \in Nat
           /\ clock \in Nat
  <1>1. /\ journal.version \in Nat /\ override.version \in Nat
        /\ clock \in Nat
    BY CapabilityAssumption
       DEF CapabilityTypeOK, JournalPolicies, Overrides
  <1>2. Policy \in Nat
    BY <1>1, PolicyRises DEF Policy, PolicyVersion
  <1>3. 1..MaxClock \subseteq Nat
    BY CapabilityAssumption
  <1> QED BY <1>1, <1>2, <1>3 DEF CapabilityTypeOK, Events, Payloads

\* A transaction marks what it is going to ask for.
LEMMA Marks ==
    ASSUME CapabilityInv, MarkChange \/ MarkActivation
    PROVE  CapabilityInv'
  <1>0. /\ CapabilityTypes
        /\ ~overlapped => Serial(change) /\ Serial(activation)
    BY DEF CapabilityInv
  <1>1. ASSUME NEW t \in Transactions
        PROVE  /\ [t EXCEPT !.marked = TRUE] \in Transactions
               /\ \A u : u = [t EXCEPT !.marked = TRUE] =>
                     /\ u.payload = t.payload /\ u.journal = t.journal
                     /\ u.override = t.override /\ u.site = t.site
    BY DEF Transactions
  <1>2. PICK t \in {change, activation} : t # None /\ marker' = t.payload
    BY DEF MarkChange, MarkActivation
  <1>3. t \in Transactions /\ t.payload \in Payloads /\ marker' # None
    BY <1>0, <1>2, TransactionsAreSome
       DEF CapabilityTypes, CapabilityTypeOK, Transactions
  <1>4. /\ UNCHANGED <<journal, override, site, clock, outbox, projection,
                       faults, overlapped, lost>>
        /\ change' \in {change, [change EXCEPT !.marked = TRUE]}
        /\ activation' \in {activation, [activation EXCEPT !.marked = TRUE]}
        /\ (change = None => change' = None)
        /\ (activation = None => activation' = None)
    BY DEF MarkChange, MarkActivation, committed
  <1>5. /\ change \in Transactions \cup {None}
        /\ activation \in Transactions \cup {None}
    BY <1>0 DEF CapabilityTypes, CapabilityTypeOK
  <1>6. /\ change' \in Transactions \cup {None}
        /\ activation' \in Transactions \cup {None}
    BY <1>1, <1>4, <1>5
  <1>7. /\ change # None =>
              /\ change'.payload = change.payload
              /\ change'.journal = change.journal
              /\ change'.override = change.override
        /\ activation # None =>
              /\ activation'.payload = activation.payload
              /\ activation'.journal = activation.journal
              /\ activation'.override = activation.override
    BY <1>1, <1>4, <1>5
  <1>8. CapabilityTypes'
    <2>1. CapabilityTypeOK'
      BY <1>0, <1>2, <1>3, <1>4, <1>6 DEF CapabilityTypes, CapabilityTypeOK
    <2>2. change' # None => change # None
      BY <1>4
    <2> QED BY <1>0, <1>4, <1>7, <2>1, <2>2 DEF CapabilityTypes
  <1>9. ASSUME ~overlapped'
        PROVE  /\ change' = None \/ activation' = None
               /\ Serial(change)' /\ Serial(activation)'
               /\ (change # None => change.payload.policy > Policy)'
               /\ (activation # None => /\ activation.journal = journal
                                        /\ activation.override = override)'
               /\ EventsOK' /\ MarkerOK'
    <2>1. ~overlapped /\ Policy' = Policy
      BY <1>4, <1>9 DEF Policy, PolicyVersion
    <2>2. /\ change = None \/ activation = None
          /\ Serial(change) /\ Serial(activation)
          /\ change # None => change.payload.policy > Policy
          /\ activation # None => /\ activation.journal = journal
                                  /\ activation.override = override
          /\ EventsOK /\ MarkerOK
      BY <2>1 DEF CapabilityInv
    <2>3. EventsOK'
      BY <1>4, <2>1, <2>2 DEF EventsOK, Faithful, Mode
    <2>4. Serial(change)'
      <3>1. CASE change = None
        BY <1>4, <3>1 DEF Serial
      <3>2. CASE change # None
        <4>1. marker' = change.payload
          BY <1>2, <2>2, <3>2
        <4> QED BY <1>4, <1>7, <2>2, <3>2, <4>1
                DEF Serial, Faithful, Mode, PolicyVersion
      <3> QED BY <3>1, <3>2
    <2>5. Serial(activation)'
      <3>1. CASE activation = None
        BY <1>4, <3>1 DEF Serial
      <3>2. CASE activation # None
        <4>1. marker' = activation.payload
          BY <1>2, <2>2, <3>2
        <4> QED BY <1>4, <1>7, <2>2, <3>2, <4>1
                DEF Serial, Faithful, Mode, PolicyVersion
      <3> QED BY <3>1, <3>2
    <2>6. /\ t.payload.policy >= Policy
          /\ t.payload.policy = Policy => Faithful(t.payload, journal, override)
      <3>1. Policy \in Nat /\ t.payload.policy \in Nat
        BY <1>0, <1>3, PayloadNumbers DEF CapabilityTypes, Payloads
      <3>2. CASE t = change
        <4>1. t.payload.policy > Policy
          BY <1>2, <2>2, <3>2
        <4> QED BY <3>1, <4>1
      <3>3. CASE t = activation
        <4>1. /\ t.payload.policy = Policy
              /\ Faithful(t.payload, journal, override)
          BY <1>2, <2>2, <3>3 DEF Serial, Policy
        <4> QED BY <3>1, <4>1
      <3> QED BY <1>2, <3>2, <3>3
    <2>7. MarkerOK'
      BY <1>2, <1>3, <1>4, <2>1, <2>2, <2>6 DEF MarkerOK, Faithful, Mode
    <2> QED BY <1>4, <1>7, <2>1, <2>2, <2>3, <2>4, <2>5, <2>7
  <1> QED BY <1>8, <1>9 DEF CapabilityInv

\* A change commits: nothing is ahead of it, and its marker stands.
LEMMA ChangeCommits ==
    ASSUME CapabilityInv, CommitChange PROVE CapabilityInv'
  <1>0. CapabilityTypes /\ CapabilityTypeOK
    BY DEF CapabilityInv, CapabilityTypes
  <1>1. /\ change # None /\ change.marked /\ change \in Transactions
        /\ journal' = change.journal /\ override' = change.override
        /\ change' = None
        /\ UNCHANGED <<site, clock, activation, marker, projection, faults,
                       overlapped, lost>>
    BY <1>0 DEF CommitChange, CapabilityTypeOK
  <1>2. PICK new : new = [payload |-> change.payload, phase |-> "queued"]
    OBVIOUS
  <1>3. /\ outbox' = outbox \cup {new} /\ new \in Events
        /\ new.payload = change.payload /\ new.phase = "queued"
        /\ change.payload \in Payloads /\ change.payload # None
    BY <1>1, <1>2, TransactionsAreSome
       DEF CommitChange, Recorded, Events, Phases, Transactions
  <1>4. CapabilityTypes'
    BY <1>0, <1>1, <1>3, TransactionsAreSome
       DEF CapabilityTypes, CapabilityTypeOK, Transactions
  <1>5. ASSUME ~overlapped'
        PROVE  /\ change' = None \/ activation' = None
               /\ Serial(change)' /\ Serial(activation)'
               /\ (change # None => change.payload.policy > Policy)'
               /\ (activation # None => /\ activation.journal = journal
                                        /\ activation.override = override)'
               /\ EventsOK' /\ MarkerOK'
    <2>1. ~overlapped
      BY <1>1, <1>5
    <2>2. /\ activation = None
          /\ Serial(change) /\ change.payload.policy > Policy
          /\ EventsOK /\ MarkerOK
      BY <1>1, <2>1 DEF CapabilityInv
    <2>3. /\ Policy' = change.payload.policy
          /\ Faithful(change.payload, journal', override')
          /\ marker = change.payload
          /\ change.payload.version <= clock
          /\ \A e \in outbox : e.payload.version < change.payload.version
      BY <1>1, <2>2 DEF Serial, Policy, PolicyVersion
    <2>4. /\ change.payload.version \in Nat /\ change.payload.policy \in Nat
          /\ Policy \in Nat /\ clock \in Nat
      BY <1>0, <1>3, PayloadNumbers, CapabilityAssumption DEF Payloads
    <2>5. ASSUME NEW e \in outbox
          PROVE  /\ e.payload.version \in Nat /\ e.payload.policy \in Nat
                 /\ e.payload.policy < change.payload.policy
                 /\ ~(change.payload.version <= e.payload.version)
      BY <1>0, <2>2, <2>3, <2>4, <2>5, PayloadNumbers DEF EventsOK
    <2>6. EventsOK'
      <3> SUFFICES ASSUME NEW e \in outbox'
                   PROVE  /\ e.payload.version <= clock
                          /\ e.payload.policy <= change.payload.policy
                          /\ e.payload.policy = change.payload.policy =>
                                 Faithful(e.payload, journal', override')
                          /\ e.phase \in {"projected", "published"} =>
                                 /\ projection # None
                                 /\ projection.version >= e.payload.version
                          /\ \A f \in outbox' :
                                 e.payload.version <= f.payload.version =>
                                 e.payload.policy <= f.payload.policy
        BY <1>1, <2>3 DEF EventsOK, Faithful, Mode
      <3>1. CASE e \in outbox
        BY <1>3, <2>2, <2>4, <2>5, <3>1 DEF EventsOK
      <3>2. CASE e = new
        <4>1. \A f \in outbox' : e.payload.version <= f.payload.version =>
                                 e.payload.policy <= f.payload.policy
          BY <1>3, <2>4, <2>5, <3>2
        <4> QED BY <1>3, <2>3, <2>4, <3>2, <4>1
      <3> QED BY <1>3, <3>1, <3>2
    <2>7. MarkerOK'
      BY <1>1, <1>3, <2>2, <2>3, <2>4 DEF MarkerOK, Faithful, Mode
    <2> QED BY <1>1, <2>2, <2>6, <2>7 DEF Serial
  <1> QED BY <1>4, <1>5 DEF CapabilityInv

\* An activation commits: the policy is what it was.
LEMMA ActivationCommits ==
    ASSUME CapabilityInv, CommitActivation PROVE CapabilityInv'
  <1>0. CapabilityTypes /\ CapabilityTypeOK
    BY DEF CapabilityInv, CapabilityTypes
  <1>1. /\ activation # None /\ activation.marked
        /\ activation \in Transactions
        /\ site' = activation.site /\ activation' = None
        /\ UNCHANGED <<journal, override, clock, change, marker, projection,
                       faults, overlapped, lost>>
    BY <1>0 DEF CommitActivation, CapabilityTypeOK
  <1>2. PICK new : new = [payload |-> activation.payload, phase |-> "queued"]
    OBVIOUS
  <1>3. /\ outbox' = outbox \cup {new} /\ new \in Events
        /\ new.payload = activation.payload /\ new.phase = "queued"
        /\ activation.payload \in Payloads /\ activation.payload # None
    BY <1>1, <1>2, TransactionsAreSome
       DEF CommitActivation, Recorded, Events, Phases, Transactions
  <1>4. CapabilityTypes'
    BY <1>0, <1>1, <1>3 DEF CapabilityTypes, CapabilityTypeOK, Transactions
  <1>5. ASSUME ~overlapped'
        PROVE  /\ change' = None \/ activation' = None
               /\ Serial(change)' /\ Serial(activation)'
               /\ (change # None => change.payload.policy > Policy)'
               /\ (activation # None => /\ activation.journal = journal
                                        /\ activation.override = override)'
               /\ EventsOK' /\ MarkerOK'
    <2> DEFINE p == activation.payload
    <2>1. ~overlapped /\ Policy' = Policy
      BY <1>1, <1>5 DEF Policy, PolicyVersion
    <2>2. /\ change = None
          /\ Serial(activation)
          /\ activation.journal = journal /\ activation.override = override
          /\ EventsOK /\ MarkerOK
      BY <1>1, <2>1 DEF CapabilityInv
    <2>3. /\ p.policy = Policy
          /\ Faithful(p, journal, override)
          /\ marker = p
          /\ p.version <= clock
          /\ \A e \in outbox : e.payload.version < p.version
      BY <1>1, <2>2 DEF Serial, Policy, PolicyVersion
    <2>4. /\ p.version \in Nat /\ p.policy \in Nat
          /\ Policy \in Nat /\ clock \in Nat
      BY <1>0, <1>3, PayloadNumbers, CapabilityAssumption DEF Payloads
    <2> HIDE DEF p
    <2>5. ASSUME NEW e \in outbox
          PROVE  /\ e.payload.version \in Nat /\ e.payload.policy \in Nat
                 /\ e.payload.policy <= p.policy
                 /\ ~(p.version <= e.payload.version)
      BY <1>0, <2>2, <2>3, <2>4, <2>5, PayloadNumbers DEF EventsOK
    <2>6. EventsOK'
      <3> SUFFICES ASSUME NEW e \in outbox'
                   PROVE  /\ e.payload.version <= clock
                          /\ e.payload.policy <= Policy
                          /\ e.payload.policy = Policy =>
                                 Faithful(e.payload, journal, override)
                          /\ e.phase \in {"projected", "published"} =>
                                 /\ projection # None
                                 /\ projection.version >= e.payload.version
                          /\ \A f \in outbox' :
                                 e.payload.version <= f.payload.version =>
                                 e.payload.policy <= f.payload.policy
        BY <1>1, <2>1 DEF EventsOK, Faithful, Mode
      <3>1. CASE e \in outbox
        BY <1>3, <2>2, <2>4, <2>5, <3>1 DEF EventsOK, p
      <3>2. CASE e = new
        <4>1. e.payload = p /\ e.phase = "queued"
          BY <1>3, <3>2 DEF p
        <4>2. \A f \in outbox' : p.version <= f.payload.version =>
                                 p.policy <= f.payload.policy
          BY <1>3, <2>4, <2>5 DEF p
        <4> QED BY <2>3, <2>4, <4>1, <4>2
      <3> QED BY <1>3, <3>1, <3>2
    <2>7. MarkerOK'
      BY <1>1, <1>3, <2>1, <2>2, <2>3, <2>4 DEF MarkerOK, Faithful, Mode, p
    <2> QED BY <1>1, <2>2, <2>6, <2>7 DEF Serial
  <1> QED BY <1>4, <1>5 DEF CapabilityInv

\* A transaction that is rolled back leaves its marker, which says no more
\* than what the next one will say.
LEMMA RollsBack ==
    ASSUME CapabilityInv, RollBackChange \/ RollBackActivation
    PROVE  CapabilityInv'
  <1>0. CapabilityTypes /\ CapabilityTypeOK
    BY DEF CapabilityInv, CapabilityTypes
  <1>1. /\ UNCHANGED <<journal, override, site, clock, outbox, marker,
                       projection, faults, overlapped>>
        /\ change' \in {change, None} /\ activation' \in {activation, None}
    BY DEF RollBackChange, RollBackActivation, committed, delivery
  <1>2. lost' \subseteq Payloads
    BY <1>0 DEF RollBackChange, RollBackActivation, Abandoned,
                CapabilityTypeOK, Transactions
  <1>3. CapabilityTypes'
    BY <1>0, <1>1, <1>2 DEF CapabilityTypes, CapabilityTypeOK
  <1>4. Policy' = Policy
    BY <1>1 DEF Policy, PolicyVersion
  <1>5. EventsOK /\ MarkerOK => EventsOK' /\ MarkerOK'
    BY <1>1, <1>4 DEF EventsOK, MarkerOK, Faithful, Mode
  <1>6. /\ Serial(change) => Serial(change)'
        /\ Serial(activation) => Serial(activation)'
    BY <1>1 DEF Serial, Faithful, Mode, PolicyVersion
  <1> QED BY <1>1, <1>3, <1>4, <1>5, <1>6 DEF CapabilityInv

\* An event moves, and the projection or the marker with it.
LEMMA Delivers ==
    ASSUME CapabilityInv, NEW e \in outbox,
           Project(e) \/ Clear(e) \/ Fail(e) \/ Reconcile(e)
    PROVE  CapabilityInv'
  <1>0. CapabilityTypes /\ CapabilityTypeOK /\ outbox \subseteq Events
    BY DEF CapabilityInv, CapabilityTypes, CapabilityTypeOK
  <1>1. /\ UNCHANGED <<journal, override, site, clock, change, activation,
                       overlapped, lost>>
        /\ faults' \in 0..MaxFaults
    BY <1>0, CapabilityAssumption
       DEF Project, Clear, Fail, Reconcile, committed, CapabilityTypeOK
  <1>2. PICK phase \in Phases :
            /\ Moved(e, phase)
            /\ \/ /\ phase = "projected" /\ marker' = marker
                  /\ projection' = IF Newer(e.payload) THEN e.payload
                                   ELSE projection
               \/ /\ phase \in {"queued", "dropped"}
                  /\ projection' = projection /\ marker' = marker
               \/ /\ e.phase = "projected" /\ projection' = projection
                  /\ marker' = Cleared(e.payload)
    <2>1. CASE Project(e)
      BY <2>1 DEF Project, Phases
    <2>2. CASE Clear(e)
      BY <2>2 DEF Clear, Phases
    <2>3. CASE Fail(e)
      BY <2>3 DEF Fail, Phases
    <2>4. CASE Reconcile(e)
      BY <2>4 DEF Reconcile, Phases
    <2> QED BY <2>1, <2>2, <2>3, <2>4
  <1>3. /\ outbox' \subseteq Events
        /\ \A f \in outbox : \E g \in outbox' : g.payload = f.payload
        /\ \A g \in outbox' :
               \/ g \in outbox
               \/ g.payload = e.payload /\ g.phase = phase
    BY <1>0, <1>2, MovedEvents
  <1>4. e.payload \in Payloads /\ e.payload # None
    BY <1>0, PayloadNumbers, TransactionsAreSome
  <1>5. CapabilityTypes'
    BY <1>0, <1>1, <1>2, <1>3, <1>4
       DEF CapabilityTypes, CapabilityTypeOK, Cleared
  <1>6. Policy' = Policy
    BY <1>1 DEF Policy, PolicyVersion
  <1>7. ASSUME ~overlapped'
        PROVE  /\ Serial(change)' /\ Serial(activation)'
               /\ EventsOK' /\ MarkerOK'
    <2>1. EventsOK /\ MarkerOK /\ Serial(change) /\ Serial(activation)
      BY <1>1, <1>7 DEF CapabilityInv
    <2>2. /\ \A f \in outbox : /\ f.payload.version \in Nat
                               /\ f.payload.policy \in Nat
          /\ projection # None => projection.version \in Nat
          /\ Policy \in Nat
      BY <1>0, PayloadNumbers
    <2>3. /\ projection # None =>
                projection' # None /\ projection'.version >= projection.version
          /\ phase = "projected" =>
                projection' # None /\ projection'.version >= e.payload.version
      <3>1. projection' \in {projection, e.payload}
        BY <1>2
      <3>2. CASE projection' = projection
        <4>1. phase = "projected" =>
                 projection # None /\ projection.version >= e.payload.version
          BY <1>2, <1>4, <2>1, <2>2, <3>2 DEF Newer, EventsOK
        <4> QED BY <2>2, <3>2, <4>1
      <3>3. CASE projection' # projection
        <4>1. /\ projection' = e.payload
              /\ projection = None \/ e.payload.version > projection.version
          BY <1>2, <3>3 DEF Newer
        <4> QED BY <1>4, <2>2, <4>1
      <3> QED BY <3>2, <3>3
    <2>4. ASSUME NEW f \in outbox, f.phase \in {"projected", "published"}
          PROVE  projection' # None /\ projection'.version >= f.payload.version
      <3>1. projection # None /\ projection.version >= f.payload.version
        BY <2>1, <2>4 DEF EventsOK
      <3>2. projection'.version \in Nat
        BY <1>2, <2>2, <3>1
      <3> QED BY <2>2, <2>3, <3>1, <3>2
    <2>5. phase = "published" =>
             projection' # None /\ projection'.version >= e.payload.version
      BY <1>2, <2>4
    <2>6. EventsOK'
      <3> SUFFICES ASSUME NEW g \in outbox'
                   PROVE  /\ g.payload.version <= clock
                          /\ g.payload.policy <= Policy
                          /\ g.payload.policy = Policy =>
                                 Faithful(g.payload, journal, override)
                          /\ g.phase \in {"projected", "published"} =>
                                 /\ projection' # None
                                 /\ projection'.version >= g.payload.version
                          /\ \A h \in outbox' :
                                 g.payload.version <= h.payload.version =>
                                 g.payload.policy <= h.payload.policy
        BY <1>1, <1>6 DEF EventsOK, Faithful, Mode
      <3>1. PICK f \in outbox : g.payload = f.payload
        BY <1>3
      <3>2. \A h \in outbox' : \E k \in outbox : h.payload = k.payload
        BY <1>3
      <3>3. g.phase \in {"projected", "published"} =>
                projection' # None /\ projection'.version >= g.payload.version
        BY <1>3, <2>3, <2>4, <2>5
      <3> QED BY <2>1, <3>1, <3>2, <3>3 DEF EventsOK
    <2>7. ASSUME projection' # None
          PROVE  /\ \E g \in outbox' : g.payload = projection'
                 /\ projection'.policy \in Nat /\ projection'.policy <= Policy
      <3>1. PICK f \in outbox : f.payload = projection'
        BY <1>2, <2>1, <2>7 DEF MarkerOK
      <3> QED BY <1>3, <2>1, <2>2, <3>1 DEF EventsOK
    <2>8. ASSUME marker' = None
          PROVE  projection' # None /\ projection'.policy = Policy
      <3>0. projection # None /\ projection' # None
        <4>1. CASE marker = None
          BY <2>1, <2>3, <4>1 DEF MarkerOK
        <4>2. CASE marker # None
          BY <1>2, <2>1, <2>3, <2>8, <4>2 DEF Cleared, EventsOK
        <4> QED BY <4>1, <4>2
      <3>1. CASE marker # None
        <4>1. marker = e.payload /\ e.phase = "projected"
              /\ projection' = projection
          BY <1>2, <2>8, <3>1 DEF Cleared
        <4>2. PICK f \in outbox : f.payload = projection
          BY <2>1, <3>0 DEF MarkerOK
        <4>3. e.payload.policy <= f.payload.policy
          <5>1. e.payload.version <= f.payload.version
            BY <2>1, <2>2, <4>1, <4>2 DEF EventsOK
          <5> QED BY <2>1, <5>1 DEF EventsOK
        <4>4. e.payload.policy >= Policy /\ f.payload.policy <= Policy
          BY <2>1, <3>1, <4>1 DEF EventsOK, MarkerOK
        <4> QED BY <2>2, <3>0, <4>1, <4>2, <4>3, <4>4
      <3>2. CASE marker = None /\ projection' = projection
        BY <2>1, <2>8, <3>2 DEF MarkerOK
      <3>3. CASE marker = None /\ projection' # projection
        <4>1. projection' = e.payload
              /\ (projection = None \/ e.payload.version > projection.version)
          BY <1>2, <3>3 DEF Newer
        <4>2. PICK f \in outbox : f.payload = projection
          BY <2>1, <3>0 DEF MarkerOK
        <4>3. f.payload.policy = Policy
          BY <2>1, <3>3, <4>2 DEF MarkerOK
        <4>4. f.payload.version <= e.payload.version
          BY <2>2, <3>0, <4>1, <4>2
        <4>5. /\ f.payload.policy <= e.payload.policy
              /\ e.payload.policy <= Policy
          BY <2>1, <4>4 DEF EventsOK
        <4> QED BY <2>2, <3>0, <4>1, <4>3, <4>5
      <3> QED BY <1>2, <3>0, <3>1, <3>2, <3>3 DEF Cleared
    <2>9. MarkerOK'
      <3>1. marker' # None => marker' = marker
        BY <1>2 DEF Cleared
      <3> QED BY <1>1, <1>6, <2>1, <2>7, <2>8, <3>1 DEF MarkerOK, Faithful,
                 Mode
    <2>10. ASSUME NEW t, t # None, Serial(t)
           PROVE  /\ t.payload.policy = PolicyVersion(t.journal, t.override)
                  /\ Faithful(t.payload, t.journal, t.override)
                  /\ t.payload.version <= clock
                  /\ \A g \in outbox' : g.payload.version < t.payload.version
                  /\ t.marked => marker' = t.payload
      <3>1. e.payload.version < t.payload.version
            /\ (t.marked => marker = t.payload)
        BY <2>10 DEF Serial
      <3>2. t.marked => marker # e.payload
        BY <2>2, <3>1
      <3>3. t.marked => marker' = marker
        BY <1>2, <3>2 DEF Cleared
      <3> QED BY <1>3, <2>10, <3>1, <3>3 DEF Serial
    <2>11. Serial(change)' /\ Serial(activation)'
      BY <1>1, <2>1, <2>10 DEF Serial, Faithful, Mode, PolicyVersion
    <2> QED BY <2>6, <2>9, <2>11
  <1> QED BY <1>1, <1>5, <1>6, <1>7 DEF CapabilityInv

-----------------------------------------------------------------------------

\* Every step keeps the invariant.
LEMMA CapabilityStep ==
    CapabilityInv /\ [CapabilityNext]_capabilityVars => CapabilityInv'
  <1> SUFFICES ASSUME CapabilityInv, [CapabilityNext]_capabilityVars
               PROVE  CapabilityInv'
    OBVIOUS
  <1>1. CASE UNCHANGED capabilityVars
    BY <1>1 DEF capabilityVars, CapabilityInv, CapabilityTypes,
                CapabilityTypeOK, Serial, EventsOK, MarkerOK, Policy,
                PolicyVersion, Faithful, Mode
  <1> QED BY <1>1, ChangeBegins, ActivationBegins, Marks, ChangeCommits,
             ActivationCommits, RollsBack, Delivers DEF CapabilityNext

\* The invariant holds initially.
LEMMA CapabilityStart == CapabilityInit => CapabilityInv
  <1> SUFFICES ASSUME CapabilityInit PROVE CapabilityInv
    OBVIOUS
  <1>1. CapabilityTypes
    <2>1. /\ 0 \in 0..MaxClock /\ 0 \in 0..MaxFaults
          /\ 0 \in Releases \cup {0}
      BY CapabilityAssumption
    <2>2. /\ [version |-> 0, mode |-> "open"] \in JournalPolicies
          /\ [version |-> 0, mode |-> "inherit"] \in Overrides
          /\ [release |-> 0, listed |-> FALSE] \in Sites
      BY <2>1 DEF JournalPolicies, Overrides, Sites, Modes
    <2>3. CapabilityTypeOK
      BY <2>1, <2>2 DEF CapabilityInit, CapabilityTypeOK
    <2> QED BY <2>3 DEF CapabilityInit, CapabilityTypes
  <1> QED BY <1>1 DEF CapabilityInit, CapabilityInv, Serial, EventsOK, MarkerOK

\* The rows, the transactions, the events and the marker have their types.
THEOREM CapabilityTypesCorrect == CapabilitySpec => []CapabilityTypeOK
  <1>1. CapabilityInv => CapabilityTypeOK
    BY DEF CapabilityInv, CapabilityTypes
  <1> QED BY <1>1, CapabilityStart, CapabilityStep, PTL DEF CapabilitySpec

\* As soon as a policy that closes the comments is committed no comment is
\* accepted, in whatever order the events arrive and whatever is rolled back,
\* as long as no activation overlaps a change.
THEOREM PolicyFollowed == CapabilitySpec => []CommentsFollowPolicy
  <1>1. CapabilityInv => CommentsFollowPolicy
    <2> SUFFICES ASSUME CapabilityInv, ~overlapped, AcceptsComment
                 PROVE  /\ Mode(journal, override) = "open"
                        /\ projection.policy = Policy
      BY DEF CommentsFollowPolicy, Policy
    <2>1. EventsOK /\ MarkerOK /\ CapabilityTypeOK
      BY DEF CapabilityInv, CapabilityTypes
    <2>2. /\ projection # None
          /\ marker # None => marker.policy <= projection.policy
      BY DEF AcceptsComment
    <2>3. PICK e \in outbox : e.payload = projection
      BY <2>1, <2>2 DEF MarkerOK
    <2>4. /\ projection.policy <= Policy
          /\ projection.policy = Policy =>
                 Faithful(projection, journal, override)
      BY <2>1, <2>3 DEF EventsOK
    <2>5. /\ Policy \in Nat /\ projection.policy \in Nat
          /\ marker # None => marker.policy \in Nat
      BY <2>1, <2>2, PayloadNumbers
    <2>6. CASE marker = None
      <3>1. projection.policy = Policy
        BY <2>1, <2>3, <2>6 DEF MarkerOK
      <3>2. projection.mode = "open"
        BY <2>6 DEF AcceptsComment
      <3> QED BY <2>4, <3>1, <3>2 DEF Faithful
    <2>7. CASE marker # None
      <3>1. marker.policy >= Policy
            /\ (marker.policy = Policy => Faithful(marker, journal, override))
        BY <2>1, <2>7 DEF MarkerOK
      <3>2. marker.policy = Policy /\ projection.policy = Policy
        BY <2>2, <2>4, <2>5, <2>7, <3>1
      <3>3. marker.mode = "open"
        BY <2>7, <3>2 DEF AcceptsComment
      <3> QED BY <3>1, <3>2, <3>3 DEF Faithful
    <2> QED BY <2>6, <2>7
  <1> QED BY <1>1, CapabilityStart, CapabilityStep, PTL DEF CapabilitySpec

-----------------------------------------------------------------------------
(* Verification: a session goes back to a link that was mailed and opened. *)

Links == [status : LinkStates, attempts : 0..TokenLimit]
Flows == [status : FlowStates, attempts : 0..CodeLimit]

\* What an open link never comes to again.
Dead == {"expired", "superseded", "blocked"}

\* What a request has found and holds.  The flows it will supersede without
\* looking belong to links that it holds, or that nobody can open any more.
RequestOK(r) ==
    /\ request[r].stage # "refused" => request[r].tries <= 2
    /\ request[r].stage # "issued" =>
           challenge[r].status = "none" /\ flow[r].status = "none"
    /\ \A c \in request[r].listed : challenge[c].status # "none"
    /\ \A c \in request[r].held : challenge[c].status = "issued"
    /\ request[r].stage \in {"superseded", "picked"} =>
           \A c \in request[r].listed :
               c \in request[r].held \/ challenge[c].status # "issued"
    /\ \A c \in request[r].picked :
           /\ c \in request[r].held \/ challenge[c].status \in Dead
           /\ flow[c].status \notin {"approved", "claimed"}

\* A challenge, its flow and their sessions belong together.
LinkOK(c) ==
    /\ challenge[c].status = "issued" => challenge[c].attempts < TokenLimit
    /\ flow[c].status = "pending" => flow[c].attempts < CodeLimit
    /\ challenge[c].status = "consumed" =>
           flow[c].status # "pending" /\ c \in mailed
    /\ challenge[c].status # "consumed" =>
           flow[c].status \notin {"approved", "claimed"}
    /\ sessions[<<c, "phone">>] =
           IF challenge[c].status = "consumed" THEN 1 ELSE 0
    /\ sessions[<<c, "computer">>] =
           IF flow[c].status = "claimed" THEN 1 ELSE 0

HeldApart ==
    \A q, r \in Requests : q # r => request[q].held \cap request[r].held = {}

VerificationInv ==
    /\ VerificationTypeOK
    /\ \A r \in Requests : RequestOK(r)
    /\ HeldApart
    /\ \A c \in Requests : LinkOK(c)

\* A challenge whose status alone is written keeps the rest.
LEMMA LinkSet ==
    ASSUME VerificationTypeOK, NEW c \in Requests, NEW status \in LinkStates,
           SetLink(c, status)
    PROVE  /\ challenge' \in [Requests -> Links]
           /\ challenge'[c].status = status
           /\ challenge'[c].attempts = challenge[c].attempts
           /\ \A q \in Requests \ {c} : challenge'[q] = challenge[q]
  <1>1. PICK row : row = [challenge[c] EXCEPT !.status = status]
    OBVIOUS
  <1>2. challenge \in [Requests -> Links]
    BY DEF VerificationTypeOK, Links
  <1>3. row \in Links /\ row.status = status
        /\ row.attempts = challenge[c].attempts
    BY <1>1, <1>2 DEF Links
  <1>4. challenge' = [challenge EXCEPT ![c] = row]
    BY <1>1 DEF SetLink
  <1> QED BY <1>2, <1>3, <1>4

\* So does a flow.
LEMMA FlowSet ==
    ASSUME VerificationTypeOK, NEW c \in Requests, NEW status \in FlowStates,
           SetFlow(c, status)
    PROVE  /\ flow' \in [Requests -> Flows]
           /\ flow'[c].status = status
           /\ flow'[c].attempts = flow[c].attempts
           /\ \A q \in Requests \ {c} : flow'[q] = flow[q]
  <1>1. PICK row : row = [flow[c] EXCEPT !.status = status]
    OBVIOUS
  <1>2. flow \in [Requests -> Flows]
    BY DEF VerificationTypeOK, Flows
  <1>3. row \in Flows /\ row.status = status
        /\ row.attempts = flow[c].attempts
    BY <1>1, <1>2 DEF Flows
  <1>4. flow' = [flow EXCEPT ![c] = row]
    BY <1>1 DEF SetFlow
  <1> QED BY <1>2, <1>3, <1>4

\* A session more changes no other count.
LEMMA SessionOpened ==
    ASSUME VerificationTypeOK, NEW c \in Requests, NEW device \in Devices,
           OpensSession(c, device), sessions[<<c, device>>] = 0
    PROVE  /\ sessions' \in [Requests \X Devices -> 0..2]
           /\ sessions'[<<c, device>>] = 1
           /\ \A s \in Requests \X Devices : s # <<c, device>> =>
                  sessions'[s] = sessions[s]
  BY DEF VerificationTypeOK, OpensSession

\* A step that writes a link which is open and free, or a flow that it does not
\* approve unless its link is, is out of the requests' way.
LEMMA RequestsStay ==
    ASSUME VerificationInv, request' = request,
           \A c \in Requests :
               \/ challenge'[c].status = challenge[c].status
               \/ /\ challenge[c].status = "issued" /\ Free(c)
                  /\ challenge'[c].status # "none",
           \A c \in Requests :
               \/ flow'[c].status = flow[c].status
               \/ /\ flow[c].status # "none"
                  /\ flow'[c].status \in {"approved", "claimed"} =>
                         \/ flow[c].status \in {"approved", "claimed"}
                         \/ challenge[c].status = "issued" /\ Free(c)
    PROVE  (\A r \in Requests : RequestOK(r)') /\ HeldApart'
  <1> SUFFICES ASSUME NEW r \in Requests PROVE RequestOK(r)'
    BY DEF VerificationInv, HeldApart
  <1>1. RequestOK(r)
    BY DEF VerificationInv
  <1>2. /\ request[r].listed \subseteq Requests
        /\ request[r].held \subseteq Requests
        /\ request[r].picked \subseteq Requests
    BY DEF VerificationInv, VerificationTypeOK, Request
  <1>3. ASSUME NEW c \in request[r].held
        PROVE  ~Free(c)
    BY <1>3 DEF Free
  <1>4. \A c \in request[r].held : challenge'[c].status = "issued"
    BY <1>1, <1>2, <1>3 DEF RequestOK
  <1>5. \A c \in request[r].listed : challenge'[c].status # "none"
    BY <1>1, <1>2 DEF RequestOK
  <1>6. request[r].stage # "issued" =>
            challenge'[r].status = "none" /\ flow'[r].status = "none"
    BY <1>1 DEF RequestOK
  <1>7. request[r].stage \in {"superseded", "picked"} =>
            \A c \in request[r].listed :
                c \in request[r].held \/ challenge'[c].status # "issued"
    BY <1>1, <1>2 DEF RequestOK
  <1>8. \A c \in request[r].picked :
            /\ c \in request[r].held \/ challenge'[c].status \in Dead
            /\ flow'[c].status \notin {"approved", "claimed"}
    BY <1>1, <1>2, <1>3 DEF RequestOK, Dead
  <1> QED BY <1>1, <1>4, <1>5, <1>6, <1>7, <1>8 DEF RequestOK

\* A link that no step is about.
LEMMA LinkStays ==
    ASSUME NEW c, LinkOK(c), challenge'[c] = challenge[c], flow'[c] = flow[c],
           \A device \in Devices :
               sessions'[<<c, device>>] = sessions[<<c, device>>],
           mailed \subseteq mailed'
    PROVE  LinkOK(c)'
  BY DEF LinkOK, Devices

\* The steps on one challenge and its flow.
LEMMA LinkSteps ==
    ASSUME VerificationInv, NEW c \in Requests,
           \/ LinkExpired(c) \/ WrongToken(c)
           \/ OpenedTooLate(c) \/ WrongCode(c) \/ Consume(c)
           \/ Claim(c) \/ CancelFlow(c) \/ ExpireFlow(c)
    PROVE  VerificationInv'
  <1>0. VerificationTypeOK /\ LinkOK(c)
    BY DEF VerificationInv
  <1>1. /\ challenge \in [Requests -> Links] /\ flow \in [Requests -> Flows]
        /\ sessions \in [Requests \X Devices -> 0..2]
    BY <1>0 DEF VerificationTypeOK, Links, Flows
  <1>2. UNCHANGED <<request, mail, mailed, bounces, agedLinks, agedFlows>>
    BY DEF LinkExpired, WrongToken, OpenedTooLate, WrongCode, Consume, Claim,
           CancelFlow, ExpireFlow, mailing, ageing
  <1>3. ASSUME challenge' \in [Requests -> Links],
               flow' \in [Requests -> Flows],
               sessions' \in [Requests \X Devices -> 0..2],
               \A q \in Requests \ {c} :
                   /\ challenge'[q] = challenge[q] /\ flow'[q] = flow[q]
                   /\ \A device \in Devices :
                          sessions'[<<q, device>>] = sessions[<<q, device>>],
               \/ challenge'[c].status = challenge[c].status
               \/ /\ challenge[c].status = "issued" /\ Free(c)
                  /\ challenge'[c].status # "none",
               \/ flow'[c].status = flow[c].status
               \/ /\ flow[c].status # "none"
                  /\ flow'[c].status \in {"approved", "claimed"} =>
                         \/ flow[c].status \in {"approved", "claimed"}
                         \/ challenge[c].status = "issued" /\ Free(c),
               LinkOK(c)'
        PROVE  VerificationInv'
    <2>1. VerificationTypeOK'
      BY <1>0, <1>2, <1>3 DEF VerificationTypeOK, Links, Flows
    <2>2. (\A r \in Requests : RequestOK(r)') /\ HeldApart'
      BY <1>2, <1>3, RequestsStay
    <2>3. \A q \in Requests : LinkOK(q)'
      BY <1>2, <1>3, LinkStays DEF VerificationInv
    <2> QED BY <2>1, <2>2, <2>3 DEF VerificationInv
  <1>4. CASE LinkExpired(c)
    <2>1. /\ challenge[c].status = "issued" /\ Free(c) /\ SetLink(c, "expired")
          /\ UNCHANGED <<flow, sessions>>
      BY <1>4 DEF LinkExpired, CanOpen
    <2>2. /\ challenge' \in [Requests -> Links]
          /\ challenge'[c].status = "expired"
          /\ \A q \in Requests \ {c} : challenge'[q] = challenge[q]
      BY <1>0, <2>1, LinkSet DEF LinkStates
    <2>3. LinkOK(c)'
      BY <1>0, <1>2, <2>1, <2>2 DEF LinkOK
    <2> QED BY <1>1, <1>3, <2>1, <2>2, <2>3
  <1>5. CASE WrongToken(c)
    <2>1. PICK row : row = Guessed(challenge[c], TokenLimit, "blocked")
      OBVIOUS
    <2>2. /\ challenge[c].status = "issued" /\ Free(c)
          /\ challenge' = [challenge EXCEPT ![c] = row]
          /\ UNCHANGED <<flow, sessions>>
      BY <1>5, <2>1 DEF WrongToken, CanOpen
    <2>3. challenge[c].attempts \in 0..TokenLimit
          /\ challenge[c].attempts < TokenLimit
      BY <1>0, <1>1, <2>2 DEF LinkOK, Links
    <2>4. /\ row \in Links /\ row.status \in {"issued", "blocked"}
          /\ row.status = "issued" => row.attempts < TokenLimit
      BY <2>1, <2>2, <2>3, VerificationAssumption DEF Guessed, Links,
         LinkStates
    <2>5. /\ challenge' \in [Requests -> Links] /\ challenge'[c] = row
          /\ \A q \in Requests \ {c} : challenge'[q] = challenge[q]
      BY <1>1, <2>2, <2>4
    <2>6. LinkOK(c)'
      BY <1>0, <1>2, <2>2, <2>4, <2>5 DEF LinkOK
    <2> QED BY <1>1, <1>3, <2>2, <2>4, <2>5, <2>6
  <1>6. ASSUME NEW status \in FlowStates \ {"none", "pending", "approved",
                                            "claimed"},
               flow[c].status \in {"pending", "approved"},
               SetFlow(c, status), UNCHANGED <<challenge, sessions>>
        PROVE  VerificationInv'
    <2>1. /\ flow' \in [Requests -> Flows]
          /\ flow'[c].status = status
          /\ \A q \in Requests \ {c} : flow'[q] = flow[q]
      BY <1>0, <1>6, FlowSet
    <2>2. LinkOK(c)'
      BY <1>0, <1>2, <1>6, <2>1 DEF LinkOK
    <2> QED BY <1>1, <1>3, <1>6, <2>1, <2>2
  <1>7. CASE OpenedTooLate(c) \/ CancelFlow(c) \/ ExpireFlow(c)
    BY <1>6, <1>7 DEF OpenedTooLate, Opens, CancelFlow, ExpireFlow, FlowStates
  <1>8. CASE WrongCode(c)
    <2>1. PICK row : row = Guessed(flow[c], CodeLimit, "denied")
      OBVIOUS
    <2>2. /\ flow[c].status = "pending"
          /\ flow' = [flow EXCEPT ![c] = row]
          /\ UNCHANGED <<challenge, sessions>>
      BY <1>8, <2>1 DEF WrongCode, Opens
    <2>3. flow[c].attempts \in 0..CodeLimit /\ flow[c].attempts < CodeLimit
      BY <1>0, <1>1, <2>2 DEF LinkOK, Flows
    <2>4. /\ row \in Flows /\ row.status \in {"pending", "denied"}
          /\ row.status = "pending" => row.attempts < CodeLimit
      BY <2>1, <2>2, <2>3, VerificationAssumption DEF Guessed, Flows,
         FlowStates
    <2>5. /\ flow' \in [Requests -> Flows] /\ flow'[c] = row
          /\ \A q \in Requests \ {c} : flow'[q] = flow[q]
      BY <1>1, <2>2, <2>4
    <2>6. LinkOK(c)'
      BY <1>0, <1>2, <2>2, <2>4, <2>5 DEF LinkOK
    <2> QED BY <1>1, <1>3, <2>2, <2>4, <2>5, <2>6
  <1>9. CASE Consume(c)
    <2>1. /\ challenge[c].status = "issued" /\ Free(c) /\ c \in mailed
          /\ flow[c].status = "pending"
          /\ SetLink(c, "consumed") /\ SetFlow(c, "approved")
          /\ OpensSession(c, "phone")
      BY <1>9 DEF Consume, Opens, CanOpen, Approved
    <2>2. /\ challenge' \in [Requests -> Links]
          /\ challenge'[c].status = "consumed"
          /\ \A q \in Requests \ {c} : challenge'[q] = challenge[q]
      BY <1>0, <2>1, LinkSet DEF LinkStates
    <2>3. /\ flow' \in [Requests -> Flows]
          /\ flow'[c].status = "approved"
          /\ \A q \in Requests \ {c} : flow'[q] = flow[q]
      BY <1>0, <2>1, FlowSet DEF FlowStates
    <2>4. /\ sessions' \in [Requests \X Devices -> 0..2]
          /\ sessions'[<<c, "phone">>] = 1
          /\ \A s \in Requests \X Devices : s # <<c, "phone">> =>
                 sessions'[s] = sessions[s]
      <3>1. "phone" \in Devices /\ sessions[<<c, "phone">>] = 0
        BY <1>0, <2>1 DEF Devices, LinkOK
      <3> QED BY <1>0, <2>1, <3>1, SessionOpened
    <2>5. sessions'[<<c, "computer">>] = sessions[<<c, "computer">>]
      BY <2>4 DEF Devices
    <2>6. \A q \in Requests \ {c} : \A device \in Devices :
             sessions'[<<q, device>>] = sessions[<<q, device>>]
      BY <2>4
    <2>7. LinkOK(c)'
      BY <1>0, <1>2, <2>1, <2>2, <2>3, <2>4, <2>5 DEF LinkOK
    <2> QED BY <1>3, <2>1, <2>2, <2>3, <2>4, <2>6, <2>7
  <1>10. CASE Claim(c)
    <2>1. /\ flow[c].status = "approved" /\ SetFlow(c, "claimed")
          /\ OpensSession(c, "computer") /\ UNCHANGED challenge
      BY <1>10 DEF Claim, Claimable
    <2>2. /\ flow' \in [Requests -> Flows]
          /\ flow'[c].status = "claimed"
          /\ \A q \in Requests \ {c} : flow'[q] = flow[q]
      BY <1>0, <2>1, FlowSet DEF FlowStates
    <2>3. /\ sessions' \in [Requests \X Devices -> 0..2]
          /\ sessions'[<<c, "computer">>] = 1
          /\ \A s \in Requests \X Devices : s # <<c, "computer">> =>
                 sessions'[s] = sessions[s]
      <3>1. "computer" \in Devices /\ sessions[<<c, "computer">>] = 0
        BY <1>0, <2>1 DEF Devices, LinkOK
      <3> QED BY <1>0, <2>1, <3>1, SessionOpened
    <2>4. sessions'[<<c, "phone">>] = sessions[<<c, "phone">>]
      BY <2>3 DEF Devices
    <2>5. \A q \in Requests \ {c} : \A device \in Devices :
             sessions'[<<q, device>>] = sessions[<<q, device>>]
      BY <2>3
    <2>6. LinkOK(c)'
      BY <1>0, <1>2, <2>1, <2>2, <2>3, <2>4 DEF LinkOK
    <2> QED BY <1>1, <1>3, <2>1, <2>2, <2>3, <2>5, <2>6
  <1> QED BY <1>4, <1>5, <1>7, <1>8, <1>9, <1>10

-----------------------------------------------------------------------------

\* A request is written, and the others and all rows stay.
LEMMA RequestMoves ==
    ASSUME VerificationInv, NEW r \in Requests, NEW new \in Request,
           request' = [request EXCEPT ![r] = new],
           UNCHANGED <<challenge, flow, mailing, ageing, sessions>>,
           RequestOK(r)',
           \A q \in Requests \ {r} : request[q].held \cap new.held = {}
    PROVE  VerificationInv'
  <1>1. /\ request \in [Requests -> Request] /\ VerificationTypeOK
        /\ HeldApart
    BY DEF VerificationInv, VerificationTypeOK
  <1>2. /\ request' \in [Requests -> Request] /\ request'[r] = new
        /\ \A q \in Requests \ {r} : request'[q] = request[q]
    BY <1>1
  <1>3. VerificationTypeOK'
    BY <1>1, <1>2 DEF VerificationTypeOK, mailing, ageing
  <1>4. \A q \in Requests \ {r} : RequestOK(q)'
    BY <1>2 DEF VerificationInv, RequestOK
  <1>5. HeldApart'
    BY <1>1, <1>2 DEF HeldApart
  <1>6. \A c \in Requests : LinkOK(c)'
    BY DEF VerificationInv, LinkOK, mailing
  <1> QED BY <1>3, <1>4, <1>5, <1>6 DEF VerificationInv

\* The statements of a transaction before its last, and its conflict.
LEMMA RequestSteps ==
    ASSUME VerificationInv, NEW r \in Requests,
           ListIssued(r) \/ Supersede(r) \/ PickFlows(r) \/ Conflict(r)
    PROVE  VerificationInv'
  <1>0. RequestOK(r) /\ request[r] \in Request
        /\ \A c \in Requests : LinkOK(c)
    BY DEF VerificationInv, VerificationTypeOK
  <1>1. UNCHANGED <<challenge, flow, mailing, ageing, sessions>>
    BY DEF ListIssued, Supersede, PickFlows, Conflict
  <1>2. /\ request[r].listed \subseteq Requests
        /\ request[r].held \subseteq Requests
        /\ request[r].picked \subseteq Requests
        /\ request[r].tries \in 0..3
        /\ DOMAIN request = Requests
    BY <1>0 DEF Request, VerificationInv, VerificationTypeOK
  <1>3. \A c \in Issued : c \in Requests /\ challenge[c].status = "issued"
    BY DEF Issued
  <1>4. /\ challenge \in [Requests -> Links]
        /\ \A q \in Requests \ {r} :
               request[q].held \cap request[r].held = {}
    BY DEF VerificationInv, VerificationTypeOK, Links, HeldApart
  <1>5. ASSUME NEW new \in Request, request' = [request EXCEPT ![r] = new]
        PROVE  request'[r] = new
    BY <1>2, <1>5
  <1>6. CASE ListIssued(r)
    <2>1. PICK new : new = [request[r] EXCEPT !.stage = "listed",
                                              !.listed = Issued]
      OBVIOUS
    <2>2. /\ new \in Request /\ new.stage = "listed" /\ new.listed = Issued
          /\ new.held = request[r].held /\ new.picked = request[r].picked
          /\ new.tries = request[r].tries
      BY <1>0, <1>3, <2>1 DEF Request, RequestStages
    <2>3. request[r].stage = "new" /\ request' = [request EXCEPT ![r] = new]
      BY <1>6, <2>1 DEF ListIssued
    <2>4. request'[r] = new
      BY <1>5, <2>2, <2>3
    <2>5. RequestOK(r)'
      BY <1>0, <1>1, <1>3, <2>2, <2>3, <2>4 DEF RequestOK
    <2> QED BY <1>1, <1>4, <2>2, <2>3, <2>5, RequestMoves
  <1>7. CASE Supersede(r)
    <2>1. PICK new : new = [request[r] EXCEPT !.stage = "superseded",
                                              !.held = Issued]
      OBVIOUS
    <2>2. /\ new \in Request /\ new.stage = "superseded" /\ new.held = Issued
          /\ new.listed = request[r].listed /\ new.picked = request[r].picked
          /\ new.tries = request[r].tries
      BY <1>0, <1>3, <2>1 DEF Request, RequestStages
    <2>3. /\ request[r].stage = "listed" /\ \A c \in Issued : Free(c)
          /\ request' = [request EXCEPT ![r] = new]
      BY <1>7, <2>1 DEF Supersede
    <2>4. request'[r] = new
      BY <1>5, <2>2, <2>3
    <2>5. \A c \in request[r].held : c \in Issued
      BY <1>0, <1>2 DEF Issued, RequestOK
    <2>6. \A c \in request[r].listed : c \in Issued
              \/ challenge[c].status # "issued"
      BY <1>2 DEF Issued
    <2>7. RequestOK(r)'
      BY <1>0, <1>1, <1>3, <2>2, <2>3, <2>4, <2>5, <2>6 DEF RequestOK
    <2>8. \A q \in Requests \ {r} : request[q].held \cap new.held = {}
      BY <2>2, <2>3 DEF Free
    <2> QED BY <1>1, <2>2, <2>3, <2>7, <2>8, RequestMoves
  <1>8. CASE PickFlows(r)
    <2>1. PICK new : new = [request[r] EXCEPT !.stage = "picked",
                                              !.picked = Picked(r)]
      OBVIOUS
    <2>2. /\ new \in Request /\ new.stage = "picked" /\ new.picked = Picked(r)
          /\ new.listed = request[r].listed /\ new.held = request[r].held
          /\ new.tries = request[r].tries
      BY <1>0, <1>2, <2>1 DEF Request, RequestStages, Picked
    <2>3. /\ request[r].stage = "superseded"
          /\ request' = [request EXCEPT ![r] = new]
      BY <1>8, <2>1 DEF PickFlows
    <2>4. request'[r] = new
      BY <1>5, <2>2, <2>3
    <2>5. ASSUME NEW c \in Picked(r)
          PROVE  /\ c \in request[r].held \/ challenge[c].status \in Dead
                 /\ flow[c].status \notin {"approved", "claimed"}
      <3>1. /\ c \in request[r].listed /\ c \in Requests
            /\ flow[c].status = "pending"
        BY <1>2 DEF Picked
      <3>2. /\ challenge[c].status \notin {"none", "consumed"}
            /\ c \in request[r].held \/ challenge[c].status # "issued"
        BY <1>0, <2>3, <3>1 DEF RequestOK, LinkOK
      <3>3. challenge[c].status \in LinkStates
        BY <1>4, <3>1 DEF Links
      <3> QED BY <3>1, <3>2, <3>3 DEF LinkStates, Dead
    <2>6. RequestOK(r)'
      BY <1>0, <1>1, <2>2, <2>3, <2>4, <2>5 DEF RequestOK
    <2> QED BY <1>1, <1>4, <2>2, <2>3, <2>6, RequestMoves
  <1>9. CASE Conflict(r)
    <2>1. PICK new : new =
              [stage |-> IF request[r].tries = 2 THEN "refused" ELSE "new",
               listed |-> {}, held |-> {}, picked |-> {},
               tries |-> request[r].tries + 1]
      OBVIOUS
    <2>2. request[r].stage = "picked" /\ request' = [request EXCEPT ![r] = new]
      BY <1>9, <2>1 DEF Conflict
    <2>3. request[r].tries \in 0..2
      BY <1>0, <1>2, <2>2 DEF RequestOK
    <2>4. /\ new \in Request
          /\ new.stage \in {"refused", "new"}
          /\ new.stage # "refused" => new.tries <= 2
          /\ new.listed = {} /\ new.held = {} /\ new.picked = {}
      BY <2>1, <2>3 DEF Request, RequestStages
    <2>5. request'[r] = new
      BY <1>5, <2>2, <2>4
    <2>6. RequestOK(r)'
      BY <1>0, <1>1, <2>2, <2>4, <2>5 DEF RequestOK
    <2> QED BY <1>1, <2>2, <2>4, <2>6, RequestMoves
  <1> QED BY <1>6, <1>7, <1>8, <1>9

\* The new challenge is issued and the ones before are superseded.
LEMMA IssueStep ==
    ASSUME VerificationInv, NEW r \in Requests, Issue(r) PROVE VerificationInv'
  <1>0. /\ VerificationTypeOK /\ HeldApart
        /\ \A q \in Requests : RequestOK(q) /\ LinkOK(q)
    BY DEF VerificationInv
  <1>1. /\ request \in [Requests -> Request]
        /\ challenge \in [Requests -> Links] /\ flow \in [Requests -> Flows]
        /\ \A q \in Requests : /\ request[q].listed \subseteq Requests
                               /\ request[q].held \subseteq Requests
                               /\ request[q].picked \subseteq Requests
    BY <1>0 DEF VerificationTypeOK, Request, Links, Flows
  <1>2. /\ request[r].stage = "picked"
        /\ challenge[r].status = "none" /\ flow[r].status = "none"
    BY <1>0 DEF Issue, RequestOK
  <1>3. PICK new : new = [stage |-> "issued", listed |-> {}, held |-> {},
                          picked |-> {}, tries |-> request[r].tries]
    OBVIOUS
  <1>4. /\ new \in Request /\ new.stage = "issued" /\ new.listed = {}
        /\ new.held = {} /\ new.picked = {} /\ new.tries <= 2
    BY <1>0, <1>1, <1>2, <1>3 DEF Request, RequestStages, RequestOK
  <1>5. request' = [request EXCEPT ![r] = new]
    BY <1>3 DEF Issue
  <1>6. /\ request' \in [Requests -> Request] /\ request'[r] = new
        /\ \A q \in Requests \ {r} : request'[q] = request[q]
    BY <1>1, <1>4, <1>5
  <1>7. PICK fresh : fresh = [status |-> "issued", attempts |-> 0]
    OBVIOUS
  <1>8. fresh \in Links /\ fresh.status = "issued" /\ fresh.attempts = 0
    BY <1>7, VerificationAssumption DEF Links, LinkStates
  <1>9. PICK begun : begun = [status |-> "pending", attempts |-> 0]
    OBVIOUS
  <1>10. begun \in Flows /\ begun.status = "pending" /\ begun.attempts = 0
    BY <1>9, VerificationAssumption DEF Flows, FlowStates
  <1>11. ASSUME NEW c \in Requests
         PROVE  /\ challenge'[c] \in Links /\ flow'[c] \in Flows
                /\ c = r => challenge'[c] = fresh /\ flow'[c] = begun
                /\ c # r /\ c \in request[r].held =>
                       challenge'[c].status = "superseded"
                /\ c # r /\ c \notin request[r].held =>
                       challenge'[c] = challenge[c]
                /\ c # r /\ c \in request[r].picked =>
                       flow'[c].status = "superseded"
                /\ c # r /\ c \notin request[r].picked => flow'[c] = flow[c]
    <2>1. challenge'[c] = IF c = r THEN fresh
                          ELSE IF c \in request[r].held
                               THEN [challenge[c] EXCEPT !.status = "superseded"]
                               ELSE challenge[c]
      BY <1>7 DEF Issue
    <2>2. flow'[c] = IF c = r THEN begun
                     ELSE IF c \in request[r].picked
                          THEN [flow[c] EXCEPT !.status = "superseded"]
                          ELSE flow[c]
      BY <1>9 DEF Issue
    <2>3. \A row \in Links :
             /\ [row EXCEPT !.status = "superseded"] \in Links
             /\ [row EXCEPT !.status = "superseded"].status = "superseded"
      BY DEF Links, LinkStates
    <2>4. \A row \in Flows :
             /\ [row EXCEPT !.status = "superseded"] \in Flows
             /\ [row EXCEPT !.status = "superseded"].status = "superseded"
      BY DEF Flows, FlowStates
    <2> QED BY <1>1, <1>8, <1>10, <2>1, <2>2, <2>3, <2>4
  <1>12. /\ challenge' \in [Requests -> Links] /\ flow' \in [Requests -> Flows]
    <2>1. DOMAIN challenge' = Requests /\ DOMAIN flow' = Requests
          /\ challenge' = [c \in Requests |-> challenge'[c]]
          /\ flow' = [c \in Requests |-> flow'[c]]
      BY DEF Issue
    <2> QED BY <1>11, <2>1
  <1>13. /\ mail' \in [Requests -> MailStates] /\ bounces' \in 0..MaxBounces
         /\ UNCHANGED <<mailed, agedLinks, agedFlows, sessions>>
    <2>1. UNCHANGED <<mailed, agedLinks, agedFlows, sessions>>
      BY DEF Issue, ageing
    <2>2. mail \in [Requests -> MailStates] /\ bounces \in 0..MaxBounces
      BY <1>0 DEF VerificationTypeOK
    <2>3. \E state \in MailStates : mail' = [mail EXCEPT ![r] = state]
      BY DEF Issue, MailStates
    <2>4. \/ bounces' = bounces
          \/ bounces < MaxBounces /\ bounces' = bounces + 1
      BY DEF Issue
    <2>5. bounces' \in 0..MaxBounces
      BY <2>2, <2>4, VerificationAssumption
    <2> QED BY <2>1, <2>2, <2>3, <2>5
  <1>14. VerificationTypeOK'
    BY <1>0, <1>6, <1>12, <1>13 DEF VerificationTypeOK, Links, Flows
  <1>15. ASSUME NEW c \in request[r].picked
         PROVE  c # r /\ flow[c].status \notin {"approved", "claimed"}
    BY <1>0, <1>2, <1>15 DEF RequestOK, Dead
  <1>16. ASSUME NEW c \in request[r].held
         PROVE  c # r /\ challenge[c].status = "issued"
    BY <1>0, <1>2, <1>16 DEF RequestOK
  <1>17. ASSUME NEW q \in Requests PROVE RequestOK(q)'
    <2>1. CASE q = r
      BY <1>4, <1>6, <2>1 DEF RequestOK
    <2>2. CASE q # r
      <3>1. /\ request'[q] = request[q] /\ RequestOK(q)
            /\ request[q].held \cap request[r].held = {}
        BY <1>0, <1>6, <2>2 DEF HeldApart
      <3>2. \A c \in request[q].listed : challenge'[c].status # "none"
        BY <1>1, <1>8, <1>11, <3>1 DEF RequestOK
      <3>3. \A c \in request[q].held :
               c # r /\ c \notin request[r].held
        BY <1>2, <3>1 DEF RequestOK
      <3>4. \A c \in request[q].held : challenge'[c].status = "issued"
        BY <1>1, <1>11, <3>1, <3>3 DEF RequestOK
      <3>5. ASSUME request[q].stage # "issued"
            PROVE  challenge'[q].status = "none" /\ flow'[q].status = "none"
        <4>1. challenge[q].status = "none" /\ flow[q].status = "none"
          BY <3>1, <3>5 DEF RequestOK
        <4>2. q \notin request[r].held /\ q \notin request[r].picked
          BY <1>0, <4>1 DEF RequestOK, Dead
        <4> QED BY <1>11, <2>2, <4>1, <4>2
      <3>6. ASSUME request[q].stage \in {"superseded", "picked"},
                   NEW c \in request[q].listed
            PROVE  c \in request[q].held \/ challenge'[c].status # "issued"
        <4>1. c # r /\ c \in Requests
          BY <1>1, <1>2, <3>1 DEF RequestOK
        <4> QED BY <1>11, <3>1, <3>6, <4>1 DEF RequestOK
      <3>7. ASSUME NEW c \in request[q].picked
            PROVE  /\ c \in request[q].held \/ challenge'[c].status \in Dead
                   /\ flow'[c].status \notin {"approved", "claimed"}
        <4>1. /\ c \in request[q].held \/ challenge[c].status \in Dead
              /\ flow[c].status \notin {"approved", "claimed"}
              /\ c \in Requests
          BY <1>1, <3>1 DEF RequestOK
        <4>2. c # r
          BY <1>2, <3>3, <4>1 DEF Dead
        <4>3. c \notin request[q].held => c \notin request[r].held
          BY <1>16, <4>1 DEF Dead
        <4> QED BY <1>11, <4>1, <4>2, <4>3
      <3> QED BY <3>1, <3>2, <3>4, <3>5, <3>6, <3>7 DEF RequestOK
    <2> QED BY <2>1, <2>2
  <1>18. HeldApart'
    BY <1>0, <1>4, <1>6 DEF HeldApart
  <1>19. ASSUME NEW c \in Requests PROVE LinkOK(c)'
    <2>0. LinkOK(c) /\ 0 < TokenLimit /\ 0 < CodeLimit
      BY <1>0, VerificationAssumption
    <2>1. CASE c = r
      <3>1. sessions[<<c, "phone">>] = 0 /\ sessions[<<c, "computer">>] = 0
        BY <1>2, <2>0, <2>1 DEF LinkOK
      <3> QED BY <1>8, <1>10, <1>11, <1>13, <2>0, <2>1, <3>1 DEF LinkOK
    <2>2. CASE c # r /\ c \in request[r].held
      <3>1. /\ challenge[c].status = "issued"
            /\ flow[c].status \notin {"approved", "claimed"}
            /\ challenge'[c].status = "superseded"
        BY <1>11, <1>16, <2>0, <2>2 DEF LinkOK
      <3> QED BY <1>11, <1>13, <2>0, <2>2, <3>1 DEF LinkOK
    <2>3. CASE c # r /\ c \notin request[r].held
      BY <1>11, <1>13, <1>15, <2>0, <2>3 DEF LinkOK
    <2> QED BY <2>1, <2>2, <2>3
  <1> QED BY <1>14, <1>17, <1>18, <1>19 DEF VerificationInv

\* The message, the mail server and the clock.
LEMMA MailSteps ==
    ASSUME VerificationInv, NEW c \in Requests,
           SendLink(c) \/ SendFails(c) \/ LinkAges(c) \/ FlowAges(c)
    PROVE  VerificationInv'
  <1>0. VerificationTypeOK
    BY DEF VerificationInv
  <1>1. /\ UNCHANGED <<request, challenge, flow, sessions>>
        /\ mailed \subseteq mailed' /\ mailed' \subseteq Requests
    BY <1>0 DEF SendLink, SendFails, LinkAges, FlowAges, opening, mailing,
                VerificationTypeOK
  <1>2. VerificationTypeOK'
    <2>1. mail' \in [Requests -> MailStates] /\ bounces' \in 0..MaxBounces
      BY <1>0, VerificationAssumption
         DEF SendLink, SendFails, LinkAges, FlowAges, mailing,
             VerificationTypeOK, MailStates
    <2>2. agedLinks' \subseteq Requests /\ agedFlows' \subseteq Requests
      BY <1>0 DEF SendLink, SendFails, LinkAges, FlowAges, ageing,
                  VerificationTypeOK
    <2> QED BY <1>0, <1>1, <2>1, <2>2 DEF VerificationTypeOK
  <1>3. (\A r \in Requests : RequestOK(r)') /\ HeldApart'
    BY <1>1, RequestsStay
  <1>4. \A q \in Requests : LinkOK(q)'
    BY <1>1, LinkStays DEF VerificationInv
  <1> QED BY <1>2, <1>3, <1>4 DEF VerificationInv

\* The cleanup takes the rows that it finds free.
LEMMA CleanUpStep == ASSUME VerificationInv, CleanUpLinks PROVE VerificationInv'
  <1>0. VerificationTypeOK /\ challenge \in [Requests -> Links]
    BY DEF VerificationInv, VerificationTypeOK, Links
  <1>1. UNCHANGED <<request, flow, mail, mailed, bounces, agedLinks, agedFlows,
                    sessions>>
    BY DEF CleanUpLinks, mailing, ageing
  <1>2. ASSUME NEW c \in Requests
        PROVE  /\ challenge'[c] \in Links
               /\ \/ challenge'[c] = challenge[c]
                  \/ /\ challenge[c].status = "issued" /\ Free(c)
                     /\ challenge'[c].status = "expired"
    <2>1. \/ challenge'[c] = challenge[c]
          \/ /\ c \in Issued /\ Free(c)
             /\ challenge'[c] = [challenge[c] EXCEPT !.status = "expired"]
      BY DEF CleanUpLinks
    <2>2. \A row \in Links :
             /\ [row EXCEPT !.status = "expired"] \in Links
             /\ [row EXCEPT !.status = "expired"].status = "expired"
      BY DEF Links, LinkStates
    <2> QED BY <1>0, <2>1, <2>2 DEF Issued
  <1>3. challenge' \in [Requests -> Links]
    <2>1. challenge' = [c \in Requests |-> challenge'[c]]
      BY DEF CleanUpLinks
    <2> QED BY <1>2, <2>1
  <1>4. VerificationTypeOK'
    BY <1>0, <1>1, <1>3 DEF VerificationTypeOK, Links
  <1>5. (\A r \in Requests : RequestOK(r)') /\ HeldApart'
    BY <1>1, <1>2, RequestsStay
  <1>6. ASSUME NEW c \in Requests PROVE LinkOK(c)'
    BY <1>1, <1>2 DEF VerificationInv, LinkOK
  <1> QED BY <1>4, <1>5, <1>6 DEF VerificationInv

\* Every step keeps the invariant.
LEMMA VerificationStep ==
    VerificationInv /\ [VerificationNext]_verificationVars => VerificationInv'
  <1> SUFFICES ASSUME VerificationInv, [VerificationNext]_verificationVars
               PROVE  VerificationInv'
    OBVIOUS
  <1>1. CASE UNCHANGED verificationVars
    BY <1>1 DEF verificationVars, opening, mailing, ageing, VerificationInv,
                VerificationTypeOK, RequestOK, HeldApart, LinkOK
  <1> QED BY <1>1, LinkSteps, RequestSteps, IssueStep, MailSteps, CleanUpStep
          DEF VerificationNext

\* The invariant holds initially.
LEMMA VerificationStart == VerificationInit => VerificationInv
  <1> SUFFICES ASSUME VerificationInit PROVE VerificationInv
    OBVIOUS
  <1>1. /\ 0 \in 0..TokenLimit /\ 0 \in 0..CodeLimit /\ 0 \in 0..MaxBounces
    BY VerificationAssumption
  <1>2. VerificationTypeOK
    <2>1. [stage |-> "new", listed |-> {}, held |-> {}, picked |-> {},
           tries |-> 0] \in Request
      BY DEF Request, RequestStages
    <2>2. [status |-> "none", attempts |-> 0] \in Links
          /\ [status |-> "none", attempts |-> 0] \in Flows
      BY <1>1 DEF Links, Flows, LinkStates, FlowStates
    <2>3. sessions \in [Requests \X Devices -> 0..2]
      BY DEF VerificationInit
    <2>4. mail \in [Requests -> MailStates]
      BY DEF VerificationInit, MailStates
    <2>5. /\ request \in [Requests -> Request]
          /\ challenge \in [Requests -> Links] /\ flow \in [Requests -> Flows]
      BY <2>1, <2>2 DEF VerificationInit
    <2> QED BY <1>1, <2>3, <2>4, <2>5
            DEF VerificationInit, VerificationTypeOK, Links, Flows
  <1>3. ASSUME NEW r \in Requests PROVE RequestOK(r)
    <2>1. /\ request[r].stage = "new" /\ request[r].tries = 0
          /\ request[r].listed = {} /\ request[r].held = {}
          /\ request[r].picked = {}
          /\ challenge[r].status = "none" /\ flow[r].status = "none"
      BY DEF VerificationInit
    <2> QED BY <2>1 DEF RequestOK
  <1>4. HeldApart
    BY DEF VerificationInit, HeldApart
  <1>5. \A c \in Requests : LinkOK(c)
    BY DEF VerificationInit, LinkOK, Devices
  <1> QED BY <1>2, <1>3, <1>4, <1>5 DEF VerificationInv

\* The requests, the challenges, the flows and the sessions have their types.
THEOREM VerificationTypesCorrect == VerificationSpec => []VerificationTypeOK
  <1>1. VerificationInv => VerificationTypeOK
    BY DEF VerificationInv
  <1> QED BY <1>1, VerificationStart, VerificationStep, PTL
          DEF VerificationSpec

\* A session of the computer goes back to one opening of a link that was
\* mailed, however requests, openings, claims and retries fall together.
THEOREM SessionsCorrect == VerificationSpec => []SessionsAreProved
  <1>1. VerificationInv => SessionsAreProved
    <2> SUFFICES ASSUME VerificationInv, NEW c \in Requests
                 PROVE  /\ sessions[<<c, "computer">>] <= sessions[<<c, "phone">>]
                        /\ sessions[<<c, "phone">>] <= 1
                        /\ flow[c].status \in {"approved", "claimed"} =>
                               challenge[c].status = "consumed" /\ c \in mailed
      BY DEF SessionsAreProved
    <2>1. LinkOK(c)
      BY DEF VerificationInv
    <2>2. CASE challenge[c].status = "consumed"
      <3>1. sessions[<<c, "phone">>] = 1 /\ c \in mailed
            /\ sessions[<<c, "computer">>] \in {0, 1}
        BY <2>1, <2>2 DEF LinkOK
      <3> QED BY <2>2, <3>1
    <2>3. CASE challenge[c].status # "consumed"
      <3>1. /\ sessions[<<c, "phone">>] = 0 /\ sessions[<<c, "computer">>] = 0
            /\ flow[c].status \notin {"approved", "claimed"}
        BY <2>1, <2>3 DEF LinkOK
      <3> QED BY <3>1
    <2> QED BY <2>2, <2>3
  <1> QED BY <1>1, VerificationStart, VerificationStep, PTL
          DEF VerificationSpec

\* No new request takes back what the phone has approved: what it supersedes
\* without looking at it again cannot have been approved meanwhile.
THEOREM ApprovalCorrect == VerificationSpec => ApprovalSurvives
  <1>1. VerificationInv /\ [VerificationNext]_verificationVars =>
            [\A c \in Requests :
                /\ flow[c].status = "approved" =>
                       flow'[c].status \in {"approved", "claimed", "expired"}
                /\ flow[c].status = "claimed" => flow'[c].status = "claimed"
            ]_verificationVars
    <2> SUFFICES ASSUME VerificationInv, VerificationNext, NEW c \in Requests
                 PROVE  /\ flow[c].status = "approved" =>
                              flow'[c].status \in
                                  {"approved", "claimed", "expired"}
                        /\ flow[c].status = "claimed" =>
                              flow'[c].status = "claimed"
      OBVIOUS
    <2>1. flow \in [Requests -> Flows] /\ VerificationTypeOK
      BY DEF VerificationInv, VerificationTypeOK, Flows
    <2>2. CASE UNCHANGED flow
      BY <2>2
    <2>3. ASSUME NEW r \in Requests, NEW status \in FlowStates,
                 SetFlow(r, status), flow[r].status \in {"pending",
                 "approved"},
                 flow[r].status = "approved" => status \in {"claimed", "expired"}
          PROVE  /\ flow[c].status = "approved" =>
                       flow'[c].status \in {"approved", "claimed", "expired"}
                 /\ flow[c].status = "claimed" => flow'[c].status = "claimed"
      BY <2>1, <2>3, FlowSet
    <2>4. ASSUME NEW r \in Requests, WrongCode(r)
          PROVE  flow[c].status # flow'[c].status => flow[c].status = "pending"
      BY <2>1, <2>4 DEF WrongCode, Opens
    <2>5. ASSUME NEW r \in Requests, Issue(r)
          PROVE  flow[c].status \in {"approved", "claimed"} => flow'[c] = flow[c]
      <3>1. flow'[c] = IF c = r THEN [status |-> "pending", attempts |-> 0]
                       ELSE IF c \in request[r].picked
                            THEN [flow[c] EXCEPT !.status = "superseded"]
                            ELSE flow[c]
        BY <2>5 DEF Issue
      <3>2. /\ flow[r].status = "none"
            /\ \A q \in request[r].picked :
                   flow[q].status \notin {"approved", "claimed"}
        BY <2>5 DEF Issue, VerificationInv, RequestOK
      <3> QED BY <3>1, <3>2
    <2>6. ASSUME NEW r \in Requests,
                 OpenedTooLate(r) \/ Consume(r) \/ CancelFlow(r)
          PROVE  \E status \in FlowStates :
                     SetFlow(r, status) /\ flow[r].status = "pending"
      BY <2>6 DEF OpenedTooLate, Consume, CancelFlow, Opens, FlowStates
    <2>7. ASSUME NEW r \in Requests, Claim(r) \/ ExpireFlow(r)
          PROVE  \E status \in {"claimed", "expired"} :
                     /\ SetFlow(r, status)
                     /\ flow[r].status \in {"pending", "approved"}
      BY <2>7 DEF Claim, Claimable, ExpireFlow
    <2>8. ASSUME NEW r \in Requests,
                 \/ ListIssued(r) \/ Supersede(r) \/ PickFlows(r) \/ Conflict(r)
                 \/ SendLink(r) \/ SendFails(r) \/ LinkExpired(r)
                 \/ WrongToken(r) \/ LinkAges(r) \/ FlowAges(r)
          PROVE  UNCHANGED flow
      BY <2>8 DEF ListIssued, Supersede, PickFlows, Conflict, SendLink,
                  SendFails, LinkExpired, WrongToken, LinkAges, FlowAges,
                  opening
    <2>9. ASSUME CleanUpLinks PROVE UNCHANGED flow
      BY <2>9 DEF CleanUpLinks
    <2>10. ASSUME NEW r \in Requests,
                  \/ OpenedTooLate(r) \/ Consume(r) \/ CancelFlow(r)
                  \/ Claim(r) \/ ExpireFlow(r)
           PROVE  /\ flow[c].status = "approved" =>
                        flow'[c].status \in {"approved", "claimed", "expired"}
                  /\ flow[c].status = "claimed" => flow'[c].status = "claimed"
      BY <2>3, <2>6, <2>7, <2>10 DEF FlowStates
    <2> QED BY <2>2, <2>4, <2>5, <2>8, <2>9, <2>10 DEF VerificationNext
  <1> QED BY <1>1, VerificationStart, VerificationStep, PTL
          DEF VerificationSpec, ApprovalSurvives

-----------------------------------------------------------------------------
(* The parts together.                                                     *)

\* A behaviour of the six parts, as the run has them, is a behaviour of each of
\* them: what is proved of a part holds in the run.
THEOREM ReaderParts ==
    ReaderSpec => /\ CapabilitySpec /\ ModerationSpec /\ SnapshotSpec
                  /\ VerificationSpec /\ PdfSpec /\ GrantSpec
  <1>1. ReaderInit => /\ CapabilityInit /\ ModerationInit /\ SnapshotInit
                      /\ VerificationInit /\ PdfInit /\ GrantInit
    BY DEF ReaderInit
  <1>2. ASSUME [ReaderNext]_readerVars
        PROVE  /\ [CapabilityNext]_capabilityVars
               /\ [ModerationNext]_moderationVars
               /\ [SnapshotNext]_snapshotVars
               /\ [VerificationNext]_verificationVars
               /\ [PdfNext]_pdfVars
               /\ [GrantNext]_grantVars
    <2>1. CASE ReaderNext
      BY <2>1 DEF ReaderNext
    <2>2. CASE UNCHANGED readerVars
      BY <2>2 DEF readerVars
    <2> QED BY <1>2, <2>1, <2>2
  <1> QED
    BY <1>1, <1>2, PTL DEF ReaderSpec, CapabilitySpec, ModerationSpec,
       SnapshotSpec, VerificationSpec, PdfSpec, GrantSpec

\* The variables of each part keep their types in the run.
THEOREM ReaderTypes == ReaderSpec => []ReaderTypeOK
  <1>1. CapabilityTypeOK /\ ModerationTypeOK /\ SnapshotTypeOK
           /\ VerificationTypeOK /\ PdfTypeOK /\ GrantTypeOK => ReaderTypeOK
    BY DEF ReaderTypeOK
  <1> QED
    BY <1>1, ReaderParts, CapabilityTypesCorrect, ModerationTypesCorrect,
       SnapshotTypesCorrect, VerificationTypesCorrect, PdfTypesCorrect,
       GrantTypesCorrect, PTL

=============================================================================
