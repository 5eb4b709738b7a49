---------------------------- MODULE Capabilities ----------------------------
(***************************************************************************)
(* Capability negotiation (src/core/capabilities.ts, runtime.ts and the     *)
(* dependency closure of session.ts): what two runtimes make of each        *)
(* other's offers, as functions of the offers.                             *)
(*                                                                         *)
(* A version range is [min, max]; an offer is a function from capability    *)
(* ids to ranges that say whether the offering peer requires them.          *)
(* Parameters (limits, liveness, codec identity) travel with an offer and   *)
(* play no part in negotiation; they are left out.  The six mandatory       *)
(* capabilities have one version and stand or fall together: `Base`.        *)
(***************************************************************************)
EXTENDS Integers, FiniteSets, Sequences, SequencesExt

Base == "base"
Datagram == "datagram"
Compact == "compact"

Lesser(a, b) == IF a <= b THEN a ELSE b
Greater(a, b) == IF a >= b THEN a ELSE b

MaxVersion == 65535

Ranges == [min : 0..MaxVersion, max : 0..MaxVersion]

VersionRange(min, max) == [min |-> min, max |-> max]

\* The core capabilities a runtime contributes besides `Base`.
CoreCapabilities(datagrams, compact) ==
  {Base} \cup (IF datagrams THEN {Datagram} ELSE {})
         \cup (IF compact THEN {Compact} ELSE {})

\* new ProtocolRuntime(...): `profiles` maps the ids of the installed extensions
\* to their ranges, `order` lists them as installed, `needs` says what each
\* requires and `require` is the user's policy.
Runtime(datagrams, compact, profiles, order, needs, require) ==
  LET core == CoreCapabilities(datagrams, compact)
  IN [capabilities |-> [id \in core \cup DOMAIN profiles |->
                          IF id \in core THEN VersionRange(1, 1) ELSE profiles[id]],
      extensions |-> order,
      needs |-> needs,
      require |-> {Base} \cup require]

\* What the constructor accepts: no extension takes a core id or an inverted
\* range, whatever an extension or the policy requires is installed, and the policy
\* requires what is mandatory.
Constructible(r) ==
  /\ \A id \in DOMAIN r.capabilities :
       r.capabilities[id] \in Ranges /\ r.capabilities[id].min <= r.capabilities[id].max
  /\ r.extensions \in Seq(DOMAIN r.capabilities \ {Base, Datagram, Compact})
  /\ IsInjective(r.extensions)
  /\ \A e \in ToSet(r.extensions) : r.needs[e] \subseteq DOMAIN r.capabilities
  /\ Base \in r.require /\ r.require \subseteq DOMAIN r.capabilities

\* The capabilities left once every extension that misses a dependency is gone:
\* the largest set that holds, with an extension, all that it needs.
PhysicallyAvailable(r, lane) ==
  UNION {S \in SUBSET DOMAIN r.capabilities :
           /\ ~lane => Datagram \notin S
           /\ \A e \in S \cap ToSet(r.extensions) : r.needs[e] \subseteq S}

\* capabilitiesToAttributes: the offer a HELLO carries.
Offer(ranges, require) ==
  [id \in DOMAIN ranges |->
     [min |-> ranges[id].min, max |-> ranges[id].max, required |-> id \in require]]

Offered(r, lane) ==
  [id \in PhysicallyAvailable(r, lane) |-> r.capabilities[id]]

Lowest(own, theirs) == Greater(own.min, theirs.min)
HighestOfOwn(own, theirs) == own.max  \* Mutant of Highest: the peer's maximum is not looked at.

Highest(own, theirs) == Lesser(own.max, theirs.max)
Compatible(own, theirs) == Lowest(own, theirs) <= Highest(own, theirs)

\* negotiateCapabilities throws CapabilityMismatchError.
Mismatch(own, theirs, require) ==
  \/ \E id \in DOMAIN theirs : theirs[id].required /\ id \notin DOMAIN own
  \/ \E id \in require : id \notin DOMAIN theirs
  \/ \E id \in DOMAIN own \cap DOMAIN theirs :
       /\ ~Compatible(own[id], theirs[id])
       /\ theirs[id].required \/ id \in require

\* negotiateCapabilities returns: the version agreed on for each capability
\* both sides have, where there is one.
Negotiated(own, theirs) ==
  [id \in {i \in DOMAIN own \cap DOMAIN theirs : Compatible(own[i], theirs[i])} |->
     Highest(own[id], theirs[id])]

\* What WELCOME offers back: exactly the versions agreed on.
Exactly(agreed) == [id \in DOMAIN agreed |-> VersionRange(agreed[id], agreed[id])]
=============================================================================
