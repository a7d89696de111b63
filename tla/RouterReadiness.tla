---------------------------- MODULE RouterReadiness ----------------------------
(***************************************************************************)
(* When the Router is ready: ops/router_model.py's assess over what LND    *)
(* reports, as ops/verify-router, the Router screen and the monitor call   *)
(* it.  The node changes as LND lets it: channels are funded, confirm and  *)
(* go inactive, gossip brings policies, payments move balances and leave   *)
(* HTLCs pending.                                                          *)
(*                                                                         *)
(* Abstractions.  The reads of one snapshot see one moment.  Amounts are   *)
(* the program's own, in satoshis and millisatoshis; every channel has one *)
(* capacity and one set of constraints per side, small enough to be met.   *)
(* Texts, channel ids and the counters on the screen are left out, as is   *)
(* what happens on a private channel, which assess passes over.            *)
(***************************************************************************)
EXTENDS Integers, FiniteSets

CONSTANTS
  Channels,
  PeerOf,    \* whom each is with
  Ours,      \* the channels this node opened
  Balances,  \* what the local side of a channel can hold, in sat
  Unknown

ASSUME ReadinessAssumption ==
  /\ IsFiniteSet(Channels) /\ Ours \subseteq Channels
  /\ DOMAIN PeerOf = Channels /\ Balances \subseteq Nat

Capacity   == 60     \* sat, commitment fee included
CommitFee  == 2
Reserve    == 1
MaxPending == 18000  \* msat
MaxHtlcs(incoming) == IF incoming THEN 2 ELSE 1
TestSat    == 10     \* assess's defaults
FeeLimit   == 10
HtlcSat    == 8      \* size of the one pending HTLC

VARIABLES
  info,   \* what getinfo says holds: testnet, synced (chain and graph), uris;
          \* it stays, for assess keeps nothing from call to call
  peers,  \* listpeers
  chans   \* listchannels, pendingchannels and getchaninfo

rdVars == <<info, peers, chans>>

\* min(capacity, max_pending_amt), in msat
PolicyMaximum == IF Capacity * 1000 < MaxPending THEN Capacity * 1000 ELSE MaxPending

Target == [base |-> 1000, rate |-> 500, min |-> 1, max |-> PolicyMaximum, disabled |-> FALSE]
OwnPolicies == {Target, [Target EXCEPT !.disabled = TRUE]}
RemotePolicies == {Unknown, Target, [Target EXCEPT !.max = 11000]}

ASSUME UnknownAssumption == Unknown \notin OwnPolicies

NoChannel == [state |-> "none", private |-> FALSE, active |-> FALSE, expires |-> Unknown,
              own |-> Unknown, remote |-> Unknown, local |-> 0, htlcs |-> {}]

ReadinessInit ==
  /\ info \in {{}, {"testnet"}, {"testnet", "synced"}, {"testnet", "synced", "uris"}}
  /\ peers = {}
  /\ chans = [c \in Channels |-> NoChannel]

-----------------------------------------------------------------------------
(* router_model.py *)

Open(c)   == chans[c].state = "open"
Public    == {c \in Channels : Open(c) /\ ~chans[c].private}
Active    == {c \in Public : chans[c].active /\ PeerOf[c] \in peers}
Pending   == {c \in Channels : chans[c].state = "pending" /\ ~chans[c].private}
PeersOf(S) == {PeerOf[c] : c \in S}

AtLeastZero(n) == IF n < 0 THEN 0 ELSE n
MinOf(a, b) == IF a < b THEN a ELSE b

PolicyMatches(policy) ==
  policy # Unknown /\ ~policy.disabled /\ policy = Target

PolicyAllows(policy, amount) ==
  policy # Unknown /\ ~policy.disabled /\ policy.min <= amount /\ amount <= policy.max

\* Commitment balances exclude pending HTLCs; the commitment fee is the
\* initiator's.
Balance(c, incoming) ==
  IF incoming THEN Capacity - CommitFee - chans[c].local - HtlcSat * Cardinality(chans[c].htlcs)
              ELSE chans[c].local

\* Mutant: the funding side's cushion is forgotten.
CapacityWithoutFee(c, incoming) ==
  LET pending   == {h \in chans[c].htlcs : h = incoming}
      available == AtLeastZero((Balance(c, incoming) - Reserve) * 1000)
      allowance == MaxPending - Cardinality(pending) * HtlcSat * 1000
  IN IF Cardinality(pending) >= MaxHtlcs(incoming) THEN 0
     ELSE AtLeastZero(MinOf(available, allowance))

DirectionalCapacity(c, incoming) ==
  LET pending   == {h \in chans[c].htlcs : h = incoming}
      cushion   == IF (c \in Ours) # incoming THEN CommitFee ELSE 0
      available == AtLeastZero((Balance(c, incoming) - Reserve - cushion) * 1000)
      allowance == MaxPending - Cardinality(pending) * HtlcSat * 1000
  IN IF Cardinality(pending) >= MaxHtlcs(incoming) THEN 0
     ELSE AtLeastZero(MinOf(available, allowance))

FundingRisk ==
  \E c \in Pending : chans[c].expires # Unknown /\ chans[c].expires <= 0

Fee(policy) == policy.base + (TestSat * 1000 * policy.rate + 999999) \div 1000000

\* What keeps out as the outgoing channel, and in as the incoming one.
OutBlockers(out) ==
  LET own == chans[out].own IN
  IF Fee(own) > FeeLimit * 1000 THEN {"fee_limit"}
  ELSE IF DirectionalCapacity(out, FALSE) < TestSat * 1000 THEN {"outbound_liquidity"}
  ELSE IF ~PolicyAllows(own, TestSat * 1000) THEN {"outbound_policy"}
  ELSE {}

InBlockers(in, amount) ==
  IF chans[in].remote = Unknown THEN {"remote_policy_unknown"}
  ELSE IF DirectionalCapacity(in, TRUE) < amount THEN {"inbound_liquidity"}
  ELSE IF ~PolicyAllows(chans[in].remote, amount) THEN {"inbound_policy"}
  ELSE {}

Incoming(out) == {c \in Active : PeerOf[c] # PeerOf[out]}
Amount(out) == TestSat * 1000 + Fee(chans[out].own)
Routes == {r \in Active \X Active :
             /\ r[1] \in Incoming(r[2]) /\ OutBlockers(r[2]) = {}
             /\ InBlockers(r[1], Amount(r[2])) = {}}
Blockers ==
  UNION {OutBlockers(o) : o \in Active} \cup
  UNION {UNION {InBlockers(i, Amount(o)) : i \in Incoming(o)} :
           o \in {a \in Active : OutBlockers(a) = {}}}

\* assess: the first of its early returns whose condition holds.
TooFew == Cardinality(PeersOf(Active)) < 2
OwnKnown == \A c \in Active : chans[c].own # Unknown
OwnMatches == OwnKnown /\ \A c \in Active : PolicyMatches(chans[c].own)

Returns ==
  << <<"testnet" \notin info, "wrong_network">>,
     <<"synced" \notin info, "syncing">>,
     <<peers = {}, "peer_disconnected">>,
     <<"uris" \notin info, "exposure_required">>,
     <<TooFew /\ Pending # {} /\ FundingRisk, "funding_review">>,
     <<TooFew /\ Pending # {}, "funding_pending">>,
     <<TooFew /\ PeersOf(Public) \ peers # {}, "peer_disconnected">>,
     <<TooFew /\ Cardinality(PeersOf(Public)) >= 2, "channel_inactive">>,
     <<TooFew, "channel_required">>,
     <<~OwnKnown, "graph_pending">>,
     <<~OwnMatches, "policy_required">>,
     <<OwnMatches /\ Routes = {} /\ "remote_policy_unknown" \in Blockers, "graph_pending">>,
     <<OwnMatches /\ Routes = {}, "liquidity_required">>,
     <<TRUE, "ready">> >>

Code ==
  LET returns == Returns
      first == CHOOSE i \in DOMAIN returns :
                 returns[i][1] /\ \A j \in 1..i - 1 : ~returns[j][1]
  IN returns[first][2]

-----------------------------------------------------------------------------
(* The node, as far as LND lets it change. *)

Set(c, new) == chans' = [chans EXCEPT ![c] = new] /\ UNCHANGED <<info, peers>>

PeersChange ==
  /\ \E p \in PeersOf(Channels) :
       peers' = IF p \in peers THEN peers \ {p} ELSE peers \cup {p}
  /\ UNCHANGED <<info, chans>>

Fund(c) ==
  /\ chans[c].state = "none" /\ PeerOf[c] \in peers
  /\ \E hidden \in BOOLEAN, left \in {Unknown, 0} :
       Set(c, [NoChannel EXCEPT !.state = "pending", !.private = hidden, !.expires = left])

Confirm(c) ==
  /\ chans[c].state = "pending"
  /\ \E b \in Balances :
       Set(c, [chans[c] EXCEPT !.state = "open", !.expires = Unknown, !.local = b, !.active = TRUE])

ActiveChanges(c) == c \in Public /\ Set(c, [chans[c] EXCEPT !.active = ~@])

Gossip(c) ==
  /\ c \in Public
  /\ \E own \in OwnPolicies, remote \in RemotePolicies :
       Set(c, [chans[c] EXCEPT !.own = own, !.remote = remote])

\* A payment settles, or leaves an HTLC (incoming: TRUE) out of a balance.
Pays(c) ==
  /\ c \in Public /\ chans[c].htlcs = {}
  /\ \/ \E b \in Balances : Set(c, [chans[c] EXCEPT !.local = b])
     \/ /\ Balance(c, TRUE) >= HtlcSat
        /\ Set(c, [chans[c] EXCEPT !.htlcs = {TRUE}])
     \/ /\ chans[c].local >= HtlcSat
        /\ Set(c, [chans[c] EXCEPT !.htlcs = {FALSE}, !.local = @ - HtlcSat])

ReadinessNext ==
  \/ PeersChange
  \/ \E c \in Channels : Fund(c) \/ Confirm(c) \/ ActiveChanges(c) \/ Gossip(c) \/ Pays(c)

ReadinessSpec == ReadinessInit /\ [][ReadinessNext]_rdVars

-----------------------------------------------------------------------------
(* What it means, said without assess. *)

\* One more HTLC of the amount fits on the side that adds it: a slot, the
\* in-flight limit, and a balance that keeps the reserve and, on the funding
\* side, spare satoshis for fees of later commitments.  What LND itself asks
\* to be spared moves with its fee estimates, and is no part of the code.
Fits(c, incoming, amount, spare) ==
  LET inFlight == Cardinality({h \in chans[c].htlcs : h = incoming})
      funding == (c \in Ours) # incoming
      left == Balance(c, incoming) * 1000 - amount IN
  /\ inFlight < MaxHtlcs(incoming)
  /\ inFlight * HtlcSat * 1000 + amount <= MaxPending
  /\ left >= (Reserve + IF funding THEN spare ELSE 0) * 1000

\* A payment of the test amount can be forwarded from in to out, with spare
\* satoshis left to whoever funded the two channels.
CanForward(in, out, spare) ==
  LET fee == Fee(chans[out].own) IN
  /\ PeerOf[in] # PeerOf[out]
  /\ fee <= FeeLimit * 1000
  /\ Fits(out, FALSE, TestSat * 1000, spare) /\ Fits(in, TRUE, TestSat * 1000 + fee, spare)
  /\ PolicyAllows(chans[out].own, TestSat * 1000)
  /\ PolicyAllows(chans[in].remote, TestSat * 1000 + fee)

\* On testnet, synchronised and announced, with the target policy on every
\* usable public channel.
Prepared ==
  /\ {"testnet", "synced", "uris"} \subseteq info
  /\ \A c \in Active : chans[c].own = Target

(* assess estimates conservatively (ops/router_model.py:3, 46-47, 57).     *)
(* Ready is no overestimate: the node is prepared, and between two peers   *)
(* the test payment fits with anything up to one more commitment fee       *)
(* spared.  Nor does it underestimate by more than that cushion, which is  *)
(* the tool's own and not LND's bandwidth: where the payment fits with the *)
(* whole fee spared, assess says ready.  And missing data never asks for a *)
(* channel or a policy (ops/verify-router:52): a channel is asked for only *)
(* when no public one is pending, the peer of each, active or not, is      *)
(* connected and they are fewer than two; a policy only when the node's    *)
(* own policy of every usable channel was read and one is not the target.  *)
AssessIsRight ==
  LET code == Code IN
  /\ code = "ready" =>
       Prepared /\ \E i, o \in Active : \A spare \in 0..CommitFee : CanForward(i, o, spare)
  /\ Prepared /\ (\E i, o \in Active : CanForward(i, o, CommitFee)) => code = "ready"
  /\ code = "channel_required" =>
       /\ Pending = {} /\ PeersOf(Public) \subseteq peers
       /\ Cardinality(PeersOf(Public)) < 2
  /\ code = "policy_required" =>
       /\ \A c \in Active : chans[c].own # Unknown
       /\ \E c \in Active : chans[c].own # Target
=============================================================================
