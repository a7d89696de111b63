-------------------------- MODULE Verdicts_proofs ---------------------------
(***************************************************************************)
(* Proofs about what is judged from one look: the readiness of the node    *)
(* (RouterReadiness), for any channels, peers and balances, and where a    *)
(* paid order stopped (PaidScanDiagnosis), for any records of it.          *)
(***************************************************************************)
EXTENDS RouterReadiness, PaidScanDiagnosis, FiniteSetTheorems, TLAPS

-----------------------------------------------------------------------------
(* RouterReadiness: capacities and routes.                                 *)

Chan == [state : {"none", "pending", "open"}, private : BOOLEAN, active : BOOLEAN,
         expires : {Unknown, 0}, own : OwnPolicies \cup {Unknown},
         remote : RemotePolicies \cup {Unknown}, local : Nat, htlcs : SUBSET BOOLEAN]

ChansInv == chans \in [Channels -> Chan]

(* The first state has no channels.                                        *)
LEMMA ReadinessInitInv == ReadinessInit => ChansInv
BY DEF ReadinessInit, ChansInv, Chan, NoChannel

(* A step changes one channel at most, into another LND allows.            *)
LEMMA SetStep ==
  ASSUME ChansInv, NEW c \in Channels, NEW new \in Chan, Set(c, new)
  PROVE  ChansInv'
BY DEF ChansInv, Set

(* Every step keeps the type of the channels.                              *)
LEMMA ReadinessInvStep == ChansInv /\ [ReadinessNext]_rdVars => ChansInv'
<1> SUFFICES ASSUME ChansInv, [ReadinessNext]_rdVars PROVE ChansInv'
  OBVIOUS
<1> USE DEF ChansInv
<1>1. CASE PeersChange \/ UNCHANGED rdVars
  BY <1>1 DEF PeersChange, rdVars
<1>2. ASSUME NEW c \in Channels, Fund(c) PROVE ChansInv'
  <2>1. PICK hidden \in BOOLEAN, left \in {Unknown, 0} :
          Set(c, [NoChannel EXCEPT !.state = "pending", !.private = hidden, !.expires = left])
    BY <1>2 DEF Fund
  <2>2. NoChannel \in Chan
    BY DEF NoChannel, Chan
  <2>3. [NoChannel EXCEPT !.state = "pending", !.private = hidden, !.expires = left] \in Chan
    BY <2>2 DEF Chan
  <2>4. QED  BY <2>1, <2>3, SetStep
<1>3. ASSUME NEW c \in Channels, Confirm(c) PROVE ChansInv'
  <2>1. PICK b \in Balances :
          Set(c, [chans[c] EXCEPT !.state = "open", !.expires = Unknown, !.local = b,
                                  !.active = TRUE])
    BY <1>3 DEF Confirm
  <2>2. b \in Nat /\ chans[c] \in Chan
    BY ReadinessAssumption
  <2>3. [chans[c] EXCEPT !.state = "open", !.expires = Unknown, !.local = b,
                         !.active = TRUE] \in Chan
    BY <2>2 DEF Chan
  <2>4. QED  BY <2>1, <2>3, SetStep
<1>4. ASSUME NEW c \in Channels, ActiveChanges(c) PROVE ChansInv'
  <2>1. [chans[c] EXCEPT !.active = ~chans[c].active] \in Chan
    BY DEF Chan
  <2>2. QED  BY <1>4, <2>1, SetStep DEF ActiveChanges
<1>5. ASSUME NEW c \in Channels, Gossip(c) PROVE ChansInv'
  <2>1. PICK own \in OwnPolicies, remote \in RemotePolicies :
          Set(c, [chans[c] EXCEPT !.own = own, !.remote = remote])
    BY <1>5 DEF Gossip
  <2>2. [chans[c] EXCEPT !.own = own, !.remote = remote] \in Chan
    BY DEF Chan
  <2>3. QED  BY <2>1, <2>2, SetStep
<1>6. ASSUME NEW c \in Channels, Pays(c) PROVE ChansInv'
  <2>1. chans[c] \in Chan /\ Balances \subseteq Nat
    BY ReadinessAssumption
  <2>2. \A b \in Balances : [chans[c] EXCEPT !.local = b] \in Chan
    BY <2>1 DEF Chan
  <2>3. [chans[c] EXCEPT !.htlcs = {TRUE}] \in Chan
    BY <2>1 DEF Chan
  <2>4. chans[c].local >= HtlcSat => chans[c].local - HtlcSat \in Nat
    BY <2>1 DEF Chan, HtlcSat
  <2>5. chans[c].local >= HtlcSat =>
          [chans[c] EXCEPT !.htlcs = {FALSE}, !.local = chans[c].local - HtlcSat] \in Chan
    BY <2>1, <2>4 DEF Chan
  <2>6. \E new \in Chan : Set(c, new)
    BY <1>6, <2>2, <2>3, <2>5 DEF Pays
  <2>7. QED  BY <2>6, SetStep
<1>7. QED
  BY <1>1, <1>2, <1>3, <1>4, <1>5, <1>6 DEF ReadinessNext

-----------------------------------------------------------------------------
(* Arithmetic.                                                             *)

(* HTLCs of at most two kinds have a count.                                *)
LEMMA HtlcCount ==
  ASSUME NEW S \in SUBSET BOOLEAN
  PROVE  Cardinality(S) \in Nat
<1>1. IsFiniteSet({} \cup {TRUE})
  BY FS_EmptySet, FS_AddElement, Zenon
<1>2. IsFiniteSet(({} \cup {TRUE}) \cup {FALSE})
  BY <1>1, FS_AddElement, Zenon
<1>3. S \subseteq ({} \cup {TRUE}) \cup {FALSE}
  BY Zenon
<1>4. IsFiniteSet(S)
  BY <1>2, <1>3, FS_Subset
<1>5. QED  BY <1>4, FS_CardinalityType

(* directional_capacity never overstates: an amount it covers fits, and    *)
(* with it whatever up to one more commitment fee the funding side is      *)
(* asked to spare.  What it does not cover does not fit with the whole fee *)
(* spared: the estimate is short by the tool's own cushion at most.        *)
THEOREM CapacityIsConservative ==
  ASSUME ChansInv, NEW c \in Channels, NEW incoming \in BOOLEAN, NEW amount \in Nat \ {0}
  PROVE  /\ DirectionalCapacity(c, incoming) \in Nat
         /\ amount <= DirectionalCapacity(c, incoming) =>
              \A spare \in 0..CommitFee : Fits(c, incoming, amount, spare)
         /\ DirectionalCapacity(c, incoming) < amount => ~Fits(c, incoming, amount, CommitFee)
<1> DEFINE n == Cardinality({h \in chans[c].htlcs : h = incoming})
           b == Balance(c, incoming)
           funding == (c \in Ours) # incoming
           f == IF funding THEN CommitFee ELSE 0
           available == AtLeastZero((b - Reserve - f) * 1000)
           allowance == MaxPending - n * HtlcSat * 1000
<1>1. n \in Nat
  BY HtlcCount DEF ChansInv, Chan
<1>2. b \in Int
  <2>1. Cardinality(chans[c].htlcs) \in Nat /\ chans[c].local \in Nat
    BY HtlcCount DEF ChansInv, Chan
  <2>2. QED  BY <2>1 DEF Balance, Capacity, CommitFee, HtlcSat
<1>3. MaxHtlcs(incoming) \in {1, 2}
  BY DEF MaxHtlcs
<1>4. DirectionalCapacity(c, incoming) =
        IF n >= MaxHtlcs(incoming) THEN 0 ELSE AtLeastZero(MinOf(available, allowance))
  BY DEF DirectionalCapacity
<1>5. \A spare : Fits(c, incoming, amount, spare) <=>
        /\ n < MaxHtlcs(incoming)
        /\ n * HtlcSat * 1000 + amount <= MaxPending
        /\ b * 1000 - amount >= (Reserve + IF funding THEN spare ELSE 0) * 1000
  BY DEF Fits
<1>6. funding \in BOOLEAN
  OBVIOUS
<1> HIDE DEF n, b, funding
<1>7. DirectionalCapacity(c, incoming) \in Nat
  BY <1>1, <1>2, <1>4 DEF AtLeastZero, MinOf, MaxPending, HtlcSat, Reserve, CommitFee
<1>8. ASSUME amount <= DirectionalCapacity(c, incoming), NEW spare \in 0..CommitFee
      PROVE  Fits(c, incoming, amount, spare)
  <2>1. n < MaxHtlcs(incoming) /\ amount <= available /\ amount <= allowance
    BY <1>1, <1>2, <1>3, <1>4, <1>8 DEF AtLeastZero, MinOf, MaxPending, HtlcSat, Reserve, CommitFee
  <2>2. n * HtlcSat * 1000 + amount <= MaxPending
    BY <1>1, <2>1 DEF MaxPending, HtlcSat
  <2>3. b * 1000 - amount >= (Reserve + f) * 1000
    BY <1>2, <2>1 DEF AtLeastZero, Reserve, CommitFee
  <2>4. (IF funding THEN spare ELSE 0) <= f
    BY <1>8 DEF CommitFee
  <2>5. QED
    BY <1>2, <1>5, <1>6, <2>1, <2>2, <2>3, <2>4 DEF Reserve, CommitFee
<1>9. ASSUME DirectionalCapacity(c, incoming) < amount, Fits(c, incoming, amount, CommitFee)
      PROVE  FALSE
  <2>1. /\ n < MaxHtlcs(incoming) /\ n * HtlcSat * 1000 + amount <= MaxPending
        /\ b * 1000 - amount >= (Reserve + f) * 1000
    BY <1>5, <1>9
  <2>2. amount <= allowance /\ amount <= available
    BY <1>1, <1>2, <2>1 DEF AtLeastZero, MaxPending, HtlcSat, Reserve, CommitFee
  <2>3. QED
    BY <1>1, <1>2, <1>3, <1>4, <1>9, <2>1, <2>2
    DEF AtLeastZero, MinOf, MaxPending, HtlcSat, Reserve, CommitFee
<1>10. QED  BY <1>7, <1>8, <1>9

(* The target policy asks 1 sat and 5 ppm-sat of the test payment.         *)
LEMMA FeeIsPositive == \A own \in OwnPolicies : Fee(own) \in Nat /\ Fee(own) > 0
BY DEF OwnPolicies, Target, Fee, TestSat, PolicyMaximum

(* A route assess lists can forward the test payment, whatever up to one   *)
(* more commitment fee must be spared; and a pair that can with the whole  *)
(* fee spared, the cushion the tool keeps, is listed.                      *)
THEOREM RoutesAreConservative ==
  ASSUME ChansInv, OwnKnown
  PROVE  /\ \A r \in Routes : \A spare \in 0..CommitFee : CanForward(r[1], r[2], spare)
         /\ \A i, o \in Active : CanForward(i, o, CommitFee) => <<i, o>> \in Routes
<1> SUFFICES ASSUME NEW i \in Active, NEW o \in Active
             PROVE  /\ i \in Incoming(o) /\ OutBlockers(o) = {} /\ InBlockers(i, Amount(o)) = {}
                         => \A spare \in 0..CommitFee : CanForward(i, o, spare)
                    /\ CanForward(i, o, CommitFee)
                         => i \in Incoming(o) /\ OutBlockers(o) = {}
                              /\ InBlockers(i, Amount(o)) = {}
  BY DEF Routes
<1> DEFINE a     == TestSat * 1000
           limit == FeeLimit * 1000
           fee   == Fee(chans[o].own)
           out   == DirectionalCapacity(o, FALSE)
           in    == DirectionalCapacity(i, TRUE)
<1>1. i \in Channels /\ o \in Channels
  BY DEF Active, Public
<1>2. chans[o].own \in OwnPolicies
  BY <1>1 DEF OwnKnown, ChansInv, Chan
<1>3. fee \in Nat /\ limit \in Nat /\ Amount(o) \in Nat \ {0} /\ a \in Nat \ {0}
  BY <1>2, FeeIsPositive DEF Amount, TestSat, FeeLimit
<1>4. OutBlockers(o) =
        IF fee > limit THEN {"fee_limit"}
        ELSE IF out < a THEN {"outbound_liquidity"}
        ELSE IF ~PolicyAllows(chans[o].own, a) THEN {"outbound_policy"}
        ELSE {}
  BY DEF OutBlockers
<1>5. InBlockers(i, Amount(o)) =
        IF chans[i].remote = Unknown THEN {"remote_policy_unknown"}
        ELSE IF in < Amount(o) THEN {"inbound_liquidity"}
        ELSE IF ~PolicyAllows(chans[i].remote, Amount(o)) THEN {"inbound_policy"}
        ELSE {}
  BY DEF InBlockers
<1>6. \A spare : CanForward(i, o, spare) <=>
        /\ PeerOf[i] # PeerOf[o]
        /\ fee <= limit
        /\ Fits(o, FALSE, a, spare) /\ Fits(i, TRUE, Amount(o), spare)
        /\ PolicyAllows(chans[o].own, a)
        /\ PolicyAllows(chans[i].remote, Amount(o))
  BY Zenon DEF CanForward, Amount
<1>7. i \in Incoming(o) <=> PeerOf[i] # PeerOf[o]
  BY DEF Incoming
<1>8. FALSE \in BOOLEAN /\ TRUE \in BOOLEAN
  OBVIOUS
<1> HIDE DEF a, limit, fee
<1>9. /\ out \in Nat
      /\ a <= out => \A spare \in 0..CommitFee : Fits(o, FALSE, a, spare)
      /\ out < a => ~Fits(o, FALSE, a, CommitFee)
  BY <1>1, <1>3, <1>8, CapacityIsConservative, Zenon
<1>10. /\ in \in Nat
       /\ Amount(o) <= in => \A spare \in 0..CommitFee : Fits(i, TRUE, Amount(o), spare)
       /\ in < Amount(o) => ~Fits(i, TRUE, Amount(o), CommitFee)
  BY <1>1, <1>3, <1>8, CapacityIsConservative, Zenon
<1> HIDE DEF out, in
<1>11. /\ fee > limit <=> ~(fee <= limit)
       /\ out < a <=> ~(a <= out)
       /\ in < Amount(o) <=> ~(Amount(o) <= in)
  BY <1>3, <1>9, <1>10
<1>12. OutBlockers(o) = {} <=> fee <= limit /\ a <= out /\ PolicyAllows(chans[o].own, a)
  <2>1. {"fee_limit"} # {} /\ {"outbound_liquidity"} # {} /\ {"outbound_policy"} # {}
    OBVIOUS
  <2>2. QED  BY <1>4, <1>11, <2>1, Zenon
<1>13. InBlockers(i, Amount(o)) = {} <=>
         Amount(o) <= in /\ PolicyAllows(chans[i].remote, Amount(o))
  <2>1. chans[i].remote = Unknown => ~PolicyAllows(chans[i].remote, Amount(o))
    BY DEF PolicyAllows
  <2>2. {"remote_policy_unknown"} # {} /\ {"inbound_liquidity"} # {} /\ {"inbound_policy"} # {}
    OBVIOUS
  <2>3. QED  BY <1>5, <1>11, <2>1, <2>2, Zenon
<1>14. QED  BY <1>6, <1>7, <1>9, <1>10, <1>11, <1>12, <1>13, Zenon

-----------------------------------------------------------------------------
(* RouterReadiness: the verdict.                                           *)

(* Of a list of branches, the first whose condition holds is the only one  *)
(* that CHOOSE can return.                                                 *)
LEMMA FirstBranch ==
  ASSUME NEW B, NEW n \in Nat, DOMAIN B = 1..n,
         NEW i \in 1..n, B[i][1], \A j \in 1..i-1 : ~B[j][1]
  PROVE  (CHOOSE k \in DOMAIN B : B[k][1] /\ \A j \in 1..k-1 : ~B[j][1]) = i
<1> DEFINE First(k) == k \in DOMAIN B /\ B[k][1] /\ \A j \in 1..k-1 : ~B[j][1]
<1>1. First(i)
  OBVIOUS
<1>2. \A k : First(k) => k = i
  OBVIOUS
<1>3. QED  BY <1>1, <1>2, Zenon

(* assess returns the code of the first early return whose condition holds.*)
LEMMA CodeIsFirst ==
  \E i \in 1..14 : /\ Returns[i][1] /\ \A j \in 1..i-1 : ~Returns[j][1]
                   /\ Code = Returns[i][2]
<1>1. DOMAIN Returns = 1..14 /\ Returns[14][1]
  BY DEF Returns
<1>2. ASSUME NEW i \in 1..14, Returns[i][1], \A j \in 1..i-1 : ~Returns[j][1]
      PROVE  Code = Returns[i][2]
  <2>1. (CHOOSE k \in DOMAIN Returns : Returns[k][1] /\ \A j \in 1..k-1 : ~Returns[j][1]) = i
    BY <1>1, <1>2, FirstBranch
  <2>2. QED  BY <2>1, Zenon DEF Code
<1>3. \E i \in 1..14 : Returns[i][1] /\ \A j \in 1..i-1 : ~Returns[j][1]
  <2> DEFINE H(i) == Returns[i][1]
  <2>1. H(14)
    BY <1>1
  <2> HIDE DEF H
  <2>2. \E i \in 1..14 : H(i) /\ \A j \in 1..i-1 : ~H(j)
    BY <2>1
  <2>3. QED  BY <2>2 DEF H
<1>4. QED  BY <1>2, <1>3

(* Only the last return is "ready", and two other codes have one return.   *)
LEMMA OneReturn ==
  \A i \in 1..14 : /\ Returns[i][2] = "ready" <=> i = 14
                   /\ Returns[i][2] = "channel_required" <=> i = 9
                   /\ Returns[i][2] = "policy_required" <=> i = 11
BY DEF Returns

(* The conditions of the returns, in the order of the code.                *)
LEMMA ReturnsHold ==
  /\ Returns[1][1] <=> "testnet" \notin info
  /\ Returns[2][1] <=> "synced" \notin info
  /\ Returns[3][1] <=> peers = {}
  /\ Returns[4][1] <=> "uris" \notin info
  /\ Returns[5][1] <=> TooFew /\ Pending # {} /\ FundingRisk
  /\ Returns[6][1] <=> TooFew /\ Pending # {}
  /\ Returns[7][1] <=> TooFew /\ PeersOf(Public) \ peers # {}
  /\ Returns[8][1] <=> TooFew /\ Cardinality(PeersOf(Public)) >= 2
  /\ Returns[9][1] <=> TooFew
  /\ Returns[10][1] <=> ~OwnKnown
  /\ Returns[11][1] <=> ~OwnMatches
  /\ Returns[12][1] <=> OwnMatches /\ Routes = {} /\ "remote_policy_unknown" \in Blockers
  /\ Returns[13][1] <=> OwnMatches /\ Routes = {}
BY DEF Returns

(* The peers of some channels have a number, and two of them make two.     *)
LEMMA PeersCount ==
  ASSUME NEW S \in SUBSET Channels
  PROVE  /\ Cardinality(PeersOf(S)) \in Nat
         /\ \A i, o \in S : PeerOf[i] # PeerOf[o] => Cardinality(PeersOf(S)) >= 2
<1>1. IsFiniteSet(S)
  BY FS_Subset, ReadinessAssumption
<1>2. IsFiniteSet(PeersOf(S))
  <2>1. PICK n \in Nat : ExistsSurjection(1..n, S)
    BY <1>1, FS_NatSurjection
  <2>2. PICK g \in [1..n -> S] : \A c \in S : \E k \in 1..n : g[k] = c
    BY <2>1 DEF ExistsSurjection, Surjection
  <2> DEFINE f == [k \in 1..n |-> PeerOf[g[k]]]
  <2>3. f \in [1..n -> PeersOf(S)]
    BY DEF PeersOf
  <2>4. \A p \in PeersOf(S) : \E k \in 1..n : f[k] = p
    BY <2>2 DEF PeersOf
  <2>5. ExistsSurjection(1..n, PeersOf(S))
    BY <2>3, <2>4 DEF ExistsSurjection, Surjection
  <2>6. QED  BY <2>5, FS_NatSurjection
<1>3. Cardinality(PeersOf(S)) \in Nat
  BY <1>2, FS_CardinalityType
<1>4. ASSUME NEW i \in S, NEW o \in S, PeerOf[i] # PeerOf[o]
      PROVE  Cardinality(PeersOf(S)) >= 2
  <2> DEFINE pair == {PeerOf[i]} \cup {PeerOf[o]}
  <2>1. IsFiniteSet({PeerOf[i]}) /\ Cardinality({PeerOf[i]}) = 1
    BY FS_Singleton
  <2>2. Cardinality(pair) = 1 + 1
    BY <1>4, <2>1, FS_AddElement
  <2>3. pair \subseteq PeersOf(S)
    BY DEF PeersOf
  <2>4. Cardinality(pair) <= Cardinality(PeersOf(S))
    BY <1>2, <2>3, FS_Subset
  <2>5. QED  BY <1>3, <2>2, <2>4
<1>5. QED  BY <1>3, <1>4

(* A route needs two peers with a usable channel.                          *)
LEMMA TooFewIs ==
  /\ Cardinality(PeersOf(Active)) \in Nat /\ Cardinality(PeersOf(Public)) \in Nat
  /\ \A i, o \in Active : CanForward(i, o, CommitFee) => ~TooFew
<1>1. Active \in SUBSET Channels /\ Public \in SUBSET Channels
  BY DEF Active, Public
<1>2. \A i, o \in Active : CanForward(i, o, CommitFee) => PeerOf[i] # PeerOf[o]
  BY DEF CanForward
<1>3. QED  BY <1>1, <1>2, PeersCount DEF TooFew

(* The target is the one policy that matches.                              *)
LEMMA TargetMatches ==
  /\ Target # Unknown /\ PolicyMatches(Target)
  /\ \A policy : PolicyMatches(policy) => policy = Target
<1>1. Target \in OwnPolicies /\ ~Target.disabled
  BY DEF OwnPolicies, Target
<1>2. QED  BY <1>1, UnknownAssumption DEF PolicyMatches

(* assess is right about every node LND can report.                        *)
LEMMA CodeIsRight == ChansInv => AssessIsRight
<1> SUFFICES ASSUME ChansInv  PROVE AssessIsRight
  OBVIOUS
<1> PICK i \in 1..14 : /\ Returns[i][1] /\ \A j \in 1..i-1 : ~Returns[j][1]
                       /\ Code = Returns[i][2]
  BY CodeIsFirst
<1>1. Code = "ready" =>
        Prepared /\ \E in, out \in Active : \A spare \in 0..CommitFee : CanForward(in, out, spare)
  <2> SUFFICES ASSUME Code = "ready"
               PROVE  Prepared /\ \E in, out \in Active :
                                    \A spare \in 0..CommitFee : CanForward(in, out, spare)
    OBVIOUS
  <2>1. i = 14
    BY OneReturn
  <2>2. \A j \in 1..13 : ~Returns[j][1]
    BY <2>1
  <2>3. /\ "testnet" \in info /\ "synced" \in info /\ "uris" \in info
        /\ OwnKnown /\ OwnMatches /\ Routes # {}
    BY <2>2, ReturnsHold
  <2>4. Prepared
    BY <2>3, TargetMatches DEF OwnMatches, Prepared
  <2>5. PICK r \in Routes : \A spare \in 0..CommitFee : CanForward(r[1], r[2], spare)
    BY <2>3, RoutesAreConservative
  <2>6. r[1] \in Active /\ r[2] \in Active
    BY DEF Routes
  <2>7. QED  BY <2>4, <2>5, <2>6
<1>2. ASSUME Prepared, NEW in \in Active, NEW out \in Active, CanForward(in, out, CommitFee)
      PROVE  Code = "ready"
  <2>1. OwnKnown /\ OwnMatches
    BY <1>2, TargetMatches DEF OwnKnown, OwnMatches, Prepared
  <2>2. ~TooFew /\ peers # {}
    BY <1>2, TooFewIs DEF Active
  <2>3. <<in, out>> \in Routes
    BY <1>2, <2>1, RoutesAreConservative
  <2>4. \A j \in 1..13 : ~Returns[j][1]
    BY <1>2, <2>1, <2>2, <2>3, ReturnsHold DEF Prepared
  <2>5. i = 14
    BY <2>4
  <2>6. QED  BY <2>5, OneReturn
<1>3. Code = "channel_required" => /\ Pending = {} /\ PeersOf(Public) \subseteq peers
                                   /\ Cardinality(PeersOf(Public)) < 2
  <2> SUFFICES ASSUME Code = "channel_required"
               PROVE  /\ Pending = {} /\ PeersOf(Public) \subseteq peers
                      /\ Cardinality(PeersOf(Public)) < 2
    OBVIOUS
  <2>1. i = 9
    BY OneReturn
  <2>2. Returns[9][1] /\ ~Returns[6][1] /\ ~Returns[7][1] /\ ~Returns[8][1]
    BY <2>1
  <2>3. Pending = {} /\ PeersOf(Public) \ peers = {} /\ ~(Cardinality(PeersOf(Public)) >= 2)
    BY <2>2, ReturnsHold
  <2>4. QED  BY <2>3, TooFewIs
<1>4. Code = "policy_required" => /\ \A c \in Active : chans[c].own # Unknown
                                  /\ \E c \in Active : chans[c].own # Target
  <2> SUFFICES ASSUME Code = "policy_required"
               PROVE  /\ \A c \in Active : chans[c].own # Unknown
                      /\ \E c \in Active : chans[c].own # Target
    OBVIOUS
  <2>1. i = 11
    BY OneReturn
  <2>2. Returns[11][1] /\ ~Returns[10][1]
    BY <2>1
  <2>3. OwnKnown /\ ~OwnMatches
    BY <2>2, ReturnsHold
  <2>4. QED  BY <2>3, TargetMatches DEF OwnKnown, OwnMatches
<1>5. QED  BY <1>1, <1>2, <1>3, <1>4 DEF AssessIsRight

(* LND's channels stay what the code takes them for.                       *)
THEOREM ChansTyped == ReadinessSpec => []ChansInv
BY ReadinessInitInv, ReadinessInvStep, PTL DEF ReadinessSpec

(* In every state the node can reach: ready is never said of a node that   *)
(* cannot forward the test payment with the tool's cushion spared, nor     *)
(* withheld from one that can, and no channel or policy is asked for on    *)
(* missing data.                                                           *)
THEOREM Assessment == ReadinessSpec => []AssessIsRight
BY ReadinessInitInv, ReadinessInvStep, CodeIsRight, PTL DEF ReadinessSpec

-----------------------------------------------------------------------------
(* PaidScanDiagnosis.                                                      *)

(* Every part of an answer has the type of its values, whatever numbers    *)
(* are observed.                                                           *)
AnswerTypes == [AnswerParts EXCEPT !.age = Int]
GateTypes   == [GateParts EXCEPT !.rejected = Nat, !.baseline = Nat]

DiagnosisInv ==
  /\ DOMAIN answer = DOMAIN AnswerTypes
  /\ \A p \in DOMAIN AnswerTypes : answer[p] \in AnswerTypes[p]
  /\ DOMAIN gate = DOMAIN GateTypes
  /\ \A p \in DOMAIN GateTypes : gate[p] \in GateTypes[p]

(* The parts are of the types.                                             *)
LEMMA PartsAreTyped ==
  /\ DOMAIN AnswerParts = DOMAIN AnswerTypes
  /\ \A p \in DOMAIN AnswerParts : AnswerParts[p] \subseteq AnswerTypes[p]
  /\ DOMAIN GateParts = DOMAIN GateTypes
  /\ \A p \in DOMAIN GateParts : GateParts[p] \subseteq GateTypes[p]
<1>1. /\ DOMAIN AnswerParts = DOMAIN AnswerTypes
      /\ \A p \in DOMAIN AnswerParts : p # "age" => AnswerTypes[p] = AnswerParts[p]
  BY DEF AnswerTypes
<1>2. AnswerParts.age = Ages /\ AnswerTypes.age = Int
  BY DEF AnswerTypes, AnswerParts
<1>3. /\ DOMAIN GateParts = DOMAIN GateTypes
      /\ \A p \in DOMAIN GateParts :
           p \notin {"rejected", "baseline"} => GateTypes[p] = GateParts[p]
  BY DEF GateTypes
<1>4. /\ GateParts.rejected = Counts /\ GateTypes.rejected = Nat
      /\ GateParts.baseline = Baselines /\ GateTypes.baseline = Nat
  BY DEF GateTypes, GateParts
<1>5. QED  BY <1>1, <1>2, <1>3, <1>4, DiagnosisAssumption

(* The first answers.                                                      *)
LEMMA DiagnosisInitInv == DiagnosisInit => DiagnosisInv
<1> SUFFICES ASSUME DiagnosisInit  PROVE DiagnosisInv
  OBVIOUS
<1>1. DOMAIN answer = DOMAIN AnswerTypes
  BY DEF DiagnosisInit, AnswerTypes, AnswerParts
<1>2. \A p \in DOMAIN AnswerTypes : answer[p] \in AnswerTypes[p]
  <2>1. /\ answer.served \in AnswerTypes.served /\ answer.age \in AnswerTypes.age
        /\ answer.order \in AnswerTypes.order /\ answer.challenge \in AnswerTypes.challenge
        /\ answer.event \in AnswerTypes.event /\ answer.commit \in AnswerTypes.commit
        /\ answer.scan \in AnswerTypes.scan /\ answer.result \in AnswerTypes.result
        /\ answer.dispatch \in AnswerTypes.dispatch
    BY DEF DiagnosisInit, AnswerTypes, AnswerParts
  <2>2. DOMAIN AnswerTypes = {"served", "age", "order", "challenge", "event", "commit", "scan",
                              "result", "dispatch"}
    BY DEF AnswerTypes, AnswerParts
  <2>3. QED  BY <2>1, <2>2
<1>3. DOMAIN gate = DOMAIN GateTypes
  BY DEF DiagnosisInit, GateTypes, GateParts
<1>4. \A p \in DOMAIN GateTypes : gate[p] \in GateTypes[p]
  <2>1. /\ gate.queries \in GateTypes.queries /\ gate.up \in GateTypes.up
        /\ gate.issued \in GateTypes.issued /\ gate.presented \in GateTypes.presented
        /\ gate.lookup \in GateTypes.lookup /\ gate.tokenless \in GateTypes.tokenless
        /\ gate.mintFailed \in GateTypes.mintFailed /\ gate.rejected \in GateTypes.rejected
        /\ gate.baseline \in GateTypes.baseline /\ gate.fastBurn \in GateTypes.fastBurn
    BY DEF DiagnosisInit, GateTypes, GateParts
  <2>2. DOMAIN GateTypes = {"queries", "up", "issued", "presented", "lookup", "tokenless",
                            "mintFailed", "rejected", "baseline", "fastBurn"}
    BY DEF GateTypes, GateParts
  <2>3. QED  BY <2>1, <2>2
<1>5. QED  BY <1>1, <1>2, <1>3, <1>4 DEF DiagnosisInv

(* Any part of the records or of the counters may change.                  *)
LEMMA DiagnosisInvStep == DiagnosisInv /\ [DiagnosisNext]_dgVars => DiagnosisInv'
BY PartsAreTyped DEF DiagnosisInv, DiagnosisNext, OrderMoves, GateMoves, dgVars

(* The parts one by one.                                                   *)
LEMMA Parts ==
  ASSUME DiagnosisInv
  PROVE  /\ answer.served \in {"ok", "access_denied"} /\ answer.age \in Int
         /\ answer.challenge \in {Absent, "issued", "settled"}
         /\ answer.event \in BOOLEAN /\ answer.result \in BOOLEAN
         /\ answer.scan \in {Absent, "queued", "running", "completed", "failed", "cancelled"}
         /\ gate.up \in 0..1 /\ gate.issued \in 0..1 /\ gate.presented \in 0..1
         /\ gate.lookup \in 0..1 /\ gate.tokenless \in 0..2 /\ gate.mintFailed \in 0..1
         /\ gate.rejected \in Nat /\ gate.baseline \in Nat /\ gate.fastBurn \subseteq {"1h", "5m"}
BY DEF DiagnosisInv, AnswerTypes, AnswerParts, GateTypes, GateParts

(* diagnose takes the first branch whose condition holds.                  *)
LEMMA StageIsFirst ==
  \E i \in 1..11 : /\ Stages[i][1] /\ \A j \in 1..i-1 : ~Stages[j][1]
                   /\ FirstOf(Stages) = Stages[i][2]
<1>1. DOMAIN Stages = 1..11 /\ Stages[11][1]
  BY DEF Stages
<1>2. ASSUME NEW i \in 1..11, Stages[i][1], \A j \in 1..i-1 : ~Stages[j][1]
      PROVE  FirstOf(Stages) = Stages[i][2]
  <2>1. (CHOOSE k \in DOMAIN Stages : Stages[k][1] /\ \A j \in 1..k-1 : ~Stages[j][1]) = i
    BY <1>1, <1>2, FirstBranch
  <2>2. QED  BY <2>1, Zenon DEF FirstOf
<1>3. \E i \in 1..11 : Stages[i][1] /\ \A j \in 1..i-1 : ~Stages[j][1]
  <2> DEFINE H(i) == Stages[i][1]
  <2>1. H(11)
    BY <1>1
  <2> HIDE DEF H
  <2>2. \E i \in 1..11 : H(i) /\ \A j \in 1..i-1 : ~H(j)
    BY <2>1
  <2>3. QED  BY <2>2 DEF H
<1>4. QED  BY <1>2, <1>3

(* The branches, in the order of the code.                                 *)
LEMMA StagesHold ==
  /\ Stages[1][1] <=> (answer.order = "paid" /\ ~answer.event) \/
                      (ResultRecorded /\ answer.scan # "completed")
  /\ Stages[2][1] <=> answer.order # "paid"
  /\ Stages[3][1] <=> answer.commit = "pending" \/ answer.challenge \notin {Absent, "settled"}
  /\ Stages[4][1] <=> answer.scan = Absent
  /\ Stages[5][1] <=> answer.scan \in {"failed", "cancelled"}
  /\ Stages[6][1] <=> answer.scan = "completed" /\ ResultRecorded
  /\ Stages[7][1] <=> answer.scan = "completed"
  /\ Stages[8][1] <=> answer.scan = "running"
  /\ Stages[9][1] <=> answer.dispatch = "registered"
  /\ Stages[10][1] <=> answer.dispatch = "dispatched"
BY DEF Stages

(* Their names.                                                            *)
LEMMA StageNames ==
  /\ Stages[1][2] = "inconsistent_records" /\ Stages[2][2] = "payment"
  /\ Stages[3][2] = "payment_records_need_review" /\ Stages[4][2] = "scan_creation"
  /\ Stages[5][2] = "scan_terminal_without_result" /\ Stages[6][2] = "result_recorded"
  /\ Stages[7][2] = "result_persistence" /\ Stages[8][2] = "scan_running"
  /\ Stages[9][2] = "dispatch_registration" /\ Stages[10][2] = "worker_start"
  /\ Stages[11][2] = "dispatch"
BY DEF Stages

(* The stage's cause, by the branch that names it.                         *)
LEMMA StageHasCause ==
  ASSUME DiagnosisInv, NEW i \in 1..11, Stages[i][1], \A j \in 1..i-1 : ~Stages[j][1]
  PROVE  Cause(Stages[i][2])
<1> USE Parts, StagesHold, StageNames, DiagnosisAssumption
<1>1. CASE i = 1
  BY <1>1 DEF Cause
<1>2. CASE i = 2
  BY <1>2 DEF Cause
<1>3. CASE i = 3
  BY <1>3 DEF Cause
<1>4. CASE i \in 4..11
  BY <1>4 DEF Cause, Sound, ResultRecorded
<1>5. QED  BY <1>1, <1>2, <1>3, <1>4

(* Records that contradict each other are the first branch.                *)
LEMMA Contradictions ==
  ASSUME NEW i \in 1..11, \A j \in 1..i-1 : ~Stages[j][1], Cause("inconsistent_records")
  PROVE  i = 1
<1>1. Stages[1][1]
  BY StagesHold DEF Cause
<1>2. QED  BY <1>1

(* Only fresh answers of the service are projected.                        *)
LEMMA FactsAreFresh ==
  ASSUME DiagnosisInv, Projected = "facts"
  PROVE  answer.served = "ok" /\ answer.age \in -5..30
BY Parts DEF Projected

(* The funnel's verdict.                                                   *)
LEMMA VerdictIsRight ==
  ASSUME DiagnosisInv
  PROVE  /\ Verdict = "healthy" =>
              /\ gate.mintFailed = 0 /\ gate.lookup = 0 /\ gate.up = 1
              /\ gate.tokenless >= 2 => gate.issued > 0
              /\ gate.tokenless + Traffic > 0
         /\ Verdict # "unknown" /\ gate.mintFailed + gate.lookup > 0 => Verdict = "incident"
         /\ Verdict = "incident" /\ gate.tokenless < 2 /\ "1h" \notin gate.fastBurn
              => gate.mintFailed + gate.lookup > 0
         /\ Security = "elevated" => gate.rejected >= 20
<1> USE Parts
<1>1. Signals # {} <=> \/ gate.mintFailed > 0 \/ gate.lookup > 0
                       \/ gate.fastBurn = {"1h", "5m"}
                       \/ gate.tokenless >= NoInvoiceMin /\ gate.issued = 0 /\ gate.mintFailed = 0
  BY DEF Signals
<1>2. Security = "elevated" => gate.rejected >= 20
  BY DEF Security, SecurityMin
<1>3. QED  BY <1>1, <1>2 DEF Verdict, Scraped, Traffic, NoInvoiceMin

(* The diagnosis is right about every answer.                              *)
LEMMA DiagnoseIsRight == DiagnosisInv => DiagnosisIsRight
<1> SUFFICES ASSUME DiagnosisInv  PROVE DiagnosisIsRight
  OBVIOUS
<1> PICK i \in 1..11 : /\ Stages[i][1] /\ \A j \in 1..i-1 : ~Stages[j][1]
                       /\ FirstOf(Stages) = Stages[i][2]
  BY StageIsFirst
<1>1. Diagnose.status = "observed" =>
        Projected = "facts" /\ Diagnose.stage = Stages[i][2]
        /\ Diagnose.escalation = Escalation(Stages[i][2])
  BY DEF Diagnose
<1>2. Diagnose.status = "observed" =>
        answer.served = "ok" /\ answer.age \in -5..30 /\ Cause(Diagnose.stage)
  BY <1>1, FactsAreFresh, StageHasCause
<1>3. Diagnose.status = "observed" /\ Cause("inconsistent_records")
        => Diagnose.escalation = "inconsistent_records"
  BY <1>1, Contradictions, StageNames DEF Escalation
<1>4. QED  BY <1>2, <1>3, VerdictIsRight DEF DiagnosisIsRight

(* Whatever the server records and Prometheus counts, in any order: the    *)
(* diagnosis is right.                                                     *)
THEOREM Diagnosis == DiagnosisSpec => []DiagnosisIsRight
BY DiagnosisInitInv, DiagnosisInvStep, DiagnoseIsRight, PTL DEF DiagnosisSpec

=============================================================================
