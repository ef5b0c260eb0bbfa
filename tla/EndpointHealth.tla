--------------------------- MODULE EndpointHealth ---------------------------
(***************************************************************************)
(* Which endpoints the broker offers (rpc_broker/profile.rs, warmup.rs and *)
(* the selection and event handlers of actor.rs).                          *)
(*                                                                         *)
(* A profile per chain and URL withdraws an endpoint for a cooldown: after *)
(* three failures of jobs within a window, or at once after a failed       *)
(* warmup check or a caller's report.  A background pass checks every      *)
(* endpoint of the installed routes, keeps those that failed out of the    *)
(* candidates and checks them again once their cooldown ends.  The two     *)
(* meet in the cooldown: jobs, reports and a second route of the same URL  *)
(* move it under a retry that waits for it.  What can go wrong is an       *)
(* endpoint that stays excluded with nobody left to retry it, a retry      *)
(* without a pause, and a cooldown that a new failure cuts short.          *)
(*                                                                         *)
(* Time is counted in ticks.  Request counts and the order of candidates   *)
(* are left out.  An endpoint fails a check only while it is down.         *)
(***************************************************************************)
EXTENDS Integers, Sequences, FiniteSets, FiniteSetsExt, SequencesExt

CONSTANTS
    Targets,       \* endpoints of installable routes
    Sites,         \* profile keys: chain and URL
    SiteOf,        \* the profile of a target
    Routes,        \* installable routes
    RouteOf,       \* the route of a target
    Chains,        \* chains
    ChainOf,       \* the chain of a profile
    Trusted,       \* targets whose route needs no identity checks
    Threshold,     \* HEALTH_STRIKE_THRESHOLD
    Window,        \* HEALTH_WINDOW
    Base,          \* HEALTH_WITHDRAWAL_BASE
    MaxCooldown,   \* HEALTH_WITHDRAWAL_MAX
    MaxExponent,   \* largest exponent of a cooldown
    MaxLevel,      \* where the withdrawal level saturates (u32::MAX)
    MaxProbes      \* MAX_BACKGROUND_PROBES

ASSUME HealthAssumption ==
    /\ IsFiniteSet(Targets)
    /\ SiteOf \in [Targets -> Sites]
    /\ RouteOf \in [Targets -> Routes]
    /\ ChainOf \in [Sites -> Chains]
    /\ Trusted \subseteq Targets
    /\ {Threshold, Base, MaxCooldown, MaxProbes, MaxLevel} \subseteq Nat \ {0}
    /\ Base <= MaxCooldown
    /\ {Window, MaxExponent} \subseteq Nat

\* No power of two is zero, for the provers, which know nothing of them.
ASSUME PowerAssumption == \A e \in 0 .. MaxExponent : 2^e \in Nat \ {0}

VARIABLES
    profile,    \* EndpointProfile of each site
    owned,      \* the pass has an owner
    activated,  \* routes its owner activated
    routes,     \* routes the pass has taken up
    queued,     \* targets to check
    failed,     \* targets whose last check failed
    probing,    \* targets being checked
    preferred,  \* chains checked first: at most one
    identified, \* targets in their route's identity cache
    up          \* sites that answer

passVars == <<owned, activated, routes, queued, failed, probing, preferred>>
healthVars == <<profile, passVars, identified, up>>

\* withdrawn_until is None
Unset == -1

Of(r) == {t \in Targets : RouteOf[t] = r}

-----------------------------------------------------------------------------
(* EndpointProfile *)

\* is_withdrawn: an ended cooldown may still be recorded.
Withdrawn(p) == p.cooldown > 0

Cooldown(level) == Min({Base * 2^Min({level - 1, MaxExponent}), MaxCooldown})

\* withdraw
Withdraw(p) ==
    LET level == Min({p.level + 1, MaxLevel})
    IN [failures |-> <<>>, cooldown |-> Cooldown(level), level |-> level]

\* record_failure; failures outside the window have left already.
RecordFailure(p) ==
    LET seen == Append(p.failures, 0)
    IN IF Len(seen) < Threshold THEN [p EXCEPT !.failures = seen] ELSE Withdraw(p)

\* withdraw_after_warmup_strike
StrikeUnlessRecorded(p) == IF p.cooldown # Unset THEN p ELSE Withdraw(p)
Strike(p) == IF Withdrawn(p) THEN p ELSE Withdraw(p)

\* restore_if_ready
RestoreIfReady(p) == IF Withdrawn(p) THEN p ELSE [p EXCEPT !.cooldown = Unset]

Cleared(p) == [p EXCEPT !.cooldown = Unset]

-----------------------------------------------------------------------------
(* Selection *)

\* eligible_endpoints: those neither failed nor withdrawn, or all of them.
Eligible(r) ==
    LET fit == {t \in Of(r) : t \notin failed /\ ~Withdrawn(profile[SiteOf[t]])}
    IN IF fit = {} THEN Of(r) ELSE fit

\* select_candidates
Candidates(r) == Eligible(r) \ failed

\* What either selection does to the profiles.
Select(r) ==
    /\ profile' = [s \in Sites |->
         IF \E t \in Of(r) \ failed : SiteOf[t] = s
         THEN RestoreIfReady(profile[s]) ELSE profile[s]]
    /\ UNCHANGED <<passVars, identified, up>>

-----------------------------------------------------------------------------
(* Events of jobs and callers *)

\* apply_request_events: a request of a job failed.
Observe(s) ==
    /\ s \notin up
    /\ profile' = [profile EXCEPT ![s] = RecordFailure(@)]
    /\ UNCHANGED <<passVars, identified, up>>

\* apply_reported_event
Report(s) ==
    /\ profile' = [profile EXCEPT ![s] = IF s \in up THEN Cleared(@) ELSE Strike(@)]
    /\ UNCHANGED <<passVars, identified, up>>

\* An identity check of a job or another caller.
CheckElsewhere(t) ==
    /\ t \notin Trusted
    /\ SiteOf[t] \in up
    /\ identified' = identified \cup {t}
    /\ UNCHANGED <<profile, passVars, up>>

-----------------------------------------------------------------------------
(* The warmup pass *)

\* append_activated_routes: new targets that are not verified, shuffled.
AppendActivated ==
    /\ owned
    /\ activated # routes
    /\ \E new \in SetToSeqs({t \in Targets : RouteOf[t] \in activated \ routes} \ identified) :
         queued' = queued \o new
    /\ routes' = activated
    /\ UNCHANGED <<profile, owned, activated, failed, probing, preferred, identified, up>>

\* A target that failed waits for its cooldown (retry_at).
Due(t) == t \in failed => ~Withdrawn(profile[SiteOf[t]])
Favoured(t) == ChainOf[SiteOf[t]] \in preferred

DuePlaces == {i \in DOMAIN queued : Due(queued[i])}
Room == MaxProbes - Cardinality(probing)

\* Targets of the preferred chain go first, then those queued first.
Before(i, n) ==
    IF Favoured(queued[i]) <=> Favoured(queued[n]) THEN i < n ELSE Favoured(queued[i])

\* The loop of next_event starts due targets while there is room.
WarmStart ==
    /\ Room > 0 /\ DuePlaces # {}
    /\ \E chosen \in SUBSET DuePlaces :
         /\ Cardinality(chosen) = Min({Cardinality(DuePlaces), Room})
         /\ \A i \in chosen, n \in DuePlaces \ chosen : Before(i, n)
         /\ probing' = probing \cup {queued[i] : i \in chosen}
         /\ \E rest \in SetToSeqs(DOMAIN queued \ chosen) :
              /\ \A i, n \in DOMAIN rest : i < n => rest[i] < rest[n]
              /\ queued' = [i \in DOMAIN rest |-> queued[rest[i]]]
    /\ UNCHANGED <<profile, owned, activated, routes, failed, preferred, identified, up>>

\* What a strike leaves in the queue.
RequeuedOnce(t) == IF t \in failed THEN queued ELSE Append(queued, t)
Requeued(t) == Append(queued, t)

\* warm_endpoint ends, and apply_warmup_event.
WarmEnd(t) ==
    /\ t \in probing
    /\ probing' = probing \ {t}
    /\ \/ /\ SiteOf[t] \in up \/ t \in identified
          /\ failed' = failed \ {t}
          /\ profile' = IF t \in failed THEN [profile EXCEPT ![SiteOf[t]] = Cleared(@)] ELSE profile
          /\ identified' = IF t \in Trusted THEN identified ELSE identified \cup {t}
          /\ UNCHANGED queued
       \/ /\ SiteOf[t] \notin up /\ t \notin identified
          /\ failed' = failed \cup {t}
          /\ queued' = Requeued(t)
          /\ profile' = [profile EXCEPT ![SiteOf[t]] = Strike(@)]
          /\ UNCHANGED identified
    /\ UNCHANGED <<owned, activated, routes, preferred, up>>

\* activate_route, prioritize_chain
Activate(r) ==
    /\ owned
    /\ activated' = activated \cup {r}
    /\ UNCHANGED <<profile, owned, routes, queued, failed, probing, preferred, identified, up>>
Prioritize(c) ==
    /\ owned
    /\ preferred' = {c}
    /\ UNCHANGED <<profile, owned, activated, routes, queued, failed, probing, identified, up>>

\* warm_identities for another installation, whose route objects may have
\* been built anew; the previous pass goes with its probes.
Install(rs, cs, kept) ==
    /\ owned' = TRUE
    /\ activated' = rs
    /\ routes' = {}
    /\ queued' = <<>>
    /\ failed' = {}
    /\ probing' = {}
    /\ preferred' = cs
    /\ identified' = identified \cap kept
    /\ UNCHANGED <<profile, up>>

\* The last clone of the owner is dropped.
DropOwner ==
    /\ owned
    /\ owned' = FALSE
    /\ activated' = {}
    /\ routes' = {}
    /\ queued' = <<>>
    /\ failed' = {}
    /\ probing' = {}
    /\ preferred' = {}
    /\ UNCHANGED <<profile, identified, up>>

-----------------------------------------------------------------------------
(* The environment *)

Aged(p) ==
    [p EXCEPT !.failures = SelectSeq([i \in DOMAIN @ |-> @[i] + 1], LAMBDA a : a <= Window),
              !.cooldown = IF Withdrawn(p) THEN @ - 1 ELSE @]

\* Checks that are due start before time passes.
Tick ==
    /\ ~(Room > 0 /\ DuePlaces # {})
    /\ profile' = [s \in Sites |-> Aged(profile[s])]
    /\ UNCHANGED <<passVars, identified, up>>

Outage(s) ==
    /\ up' = IF s \in up THEN up \ {s} ELSE up \cup {s}
    /\ UNCHANGED <<profile, passVars, identified>>

HealthInit ==
    /\ profile = [s \in Sites |-> [failures |-> <<>>, cooldown |-> Unset, level |-> 0]]
    /\ owned = FALSE
    /\ activated = {}
    /\ routes = {}
    /\ queued = <<>>
    /\ failed = {}
    /\ probing = {}
    /\ preferred = {}
    /\ identified = {}
    /\ up = Sites

HealthNext ==
    \/ \E r \in Routes : Select(r) \/ Activate(r)
    \/ \E s \in Sites : Observe(s) \/ Report(s) \/ Outage(s)
    \/ \E t \in Targets : CheckElsewhere(t) \/ WarmEnd(t)
    \/ AppendActivated
    \/ WarmStart
    \/ \E c \in Chains : Prioritize(c)
    \/ \E rs \in SUBSET Routes, cs \in {{}} \cup {{c} : c \in Chains} :
         \E kept \in {{t \in Targets : RouteOf[t] \in Routes \ rs}, Targets} : Install(rs, cs, kept)
    \/ DropOwner
    \/ Tick

HealthSpec == HealthInit /\ [][HealthNext]_healthVars

\* Time passes whatever happens, and the actor's task polls the pass, whose checks end by their
\* timeout.
FairHealthSpec ==
    /\ HealthSpec
    /\ SF_healthVars(Tick) /\ WF_healthVars(AppendActivated) /\ WF_healthVars(WarmStart)
    /\ \A t \in Targets : WF_healthVars(WarmEnd(t))

-----------------------------------------------------------------------------
(* Properties *)

\* The type invariant.
HealthTypeOK ==
    /\ profile \in [Sites -> [failures : Seq(0 .. Window), cooldown : -1 .. MaxCooldown,
                              level : 0 .. MaxLevel]]
    /\ \A s \in Sites : Len(profile[s].failures) < Threshold
    /\ owned \in BOOLEAN
    /\ routes \subseteq activated /\ activated \subseteq Routes
    /\ queued \in Seq(Targets)
    /\ failed \subseteq Targets /\ probing \subseteq Targets
    /\ Cardinality(probing) <= MaxProbes
    /\ preferred \subseteq Chains
    /\ identified \subseteq Targets \ Trusted
    /\ up \subseteq Sites

\* "A failed endpoint stays excluded while its recovery is queued or in
\* flight", and not longer: whatever fails, recovers, is installed or dropped,
\* each excluded endpoint has exactly one check pending.
RecoveryPending ==
    /\ failed \subseteq ToSet(queued) \cup probing
    /\ ToSet(queued) \cap probing = {}
    /\ \A i, n \in DOMAIN queued : queued[i] = queued[n] => i = n

\* A check that failed is not repeated at once, even when a job, a report or
\* another route of the same URL moved the cooldown while it ran.
RetryBacksOff ==
    [][\A t \in Targets : t \in probing /\ t \notin probing' /\ t \in failed' =>
         Withdrawn(profile'[SiteOf[t]])]_healthVars

\* An endpoint that answers again for good is offered to callers again,
\* whatever withdrew or excluded it.
OfferedAgain ==
    \A t \in Targets : <>[](SiteOf[t] \in up) => []<>(t \in Candidates(RouteOf[t]))
=============================================================================
