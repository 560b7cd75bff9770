--------------------------- MODULE Access_proofs ---------------------------
(***************************************************************************)
(* Invariants of the two records that prove access to a resource: Anchors, *)
(* for any resources, buyers, hashes and limits, and Leases, for any       *)
(* resources, holders, prices and lengths of the tiers.                    *)
(***************************************************************************)
EXTENDS Anchors, Leases, TLAPS

----------------------------------------------------------------------------
(* Purchase receipt anchors *)

\* What the latest payment of a pair says agrees with the hash index.
LatestPaid ==
    \A p \in Pairs : latest[p] # NoHash => latest[p] \in Hashes /\ paidBy[latest[p]] = p

\* The counter and its ledger summarise the rejections.
Counted(p) ==
    LET s == rejections[p] IN
    /\ attempts[p].count = Len(s)
    /\ Len(s) > 0 => attempts[p].last = s[Len(s)]
    /\ \A i \in 1 .. Len(s) : s[i] <= attempts[p].last
    /\ \A i, j \in 1 .. Len(s) : i < j => s[j] >= s[i] + Backoff

AnchorsIInv ==
    /\ TypeOK
    /\ LatestPaid
    /\ SettlerAnchorsBacked
    /\ UnavailableMeansUnanchored
    /\ \A p \in Pairs : Counted(p)

LEMMA NoPairIsNoPair == \A p \in Pairs : p # NoPair
BY DEF Pairs, NoPair

LEMMA AnchorsInitHolds == Init => AnchorsIInv
<1> SUFFICES ASSUME Init PROVE AnchorsIInv  OBVIOUS
<1> USE AnchorsAssumption DEF Init
<1>1. TypeOK  BY DEF TypeOK, NoAttempts, Reasons
<1>2. LatestPaid /\ SettlerAnchorsBacked /\ UnavailableMeansUnanchored
  BY DEF LatestPaid, SettlerAnchorsBacked, UnavailableMeansUnanchored
<1>3. \A p \in Pairs : Counted(p)  BY DEF Counted, NoAttempts
<1> QED  BY <1>1, <1>2, <1>3 DEF AnchorsIInv

\* write_anchor keeps the invariant when a settler's hash is a payment's.
LEMMA WriteAnchorKeeps ==
    ASSUME AnchorsIInv, NEW p \in Pairs, NEW h \in Hashes, NEW by \in {"Verifier", "Settler", "Admin"},
           WriteAnchor(p, h, by), by = "Settler" => paidBy[h] = p
    PROVE  AnchorsIInv'
<1> USE AnchorsAssumption
<1>1. TypeOK /\ LatestPaid /\ SettlerAnchorsBacked /\ UnavailableMeansUnanchored
  BY DEF AnchorsIInv
<1>2. TypeOK'
  BY <1>1 DEF TypeOK, WriteAnchor, ClearedFailure, NoAttempts, payments
<1>3. LatestPaid'  BY <1>1 DEF LatestPaid, WriteAnchor, payments
<1>4. SettlerAnchorsBacked'
  BY <1>1 DEF TypeOK, SettlerAnchorsBacked, WriteAnchor, payments
<1>5. UnavailableMeansUnanchored'
  BY <1>1 DEF TypeOK, UnavailableMeansUnanchored, WriteAnchor, ClearedFailure
<1>6. ASSUME NEW q \in Pairs PROVE Counted(q)'
  <2>1. CASE q = p
    BY <1>1, <2>1 DEF TypeOK, Counted, WriteAnchor, NoAttempts
  <2>2. CASE q # p
    <3>1. rejections'[q] = rejections[q] /\ attempts'[q] = attempts[q]
      BY <1>1, <2>2 DEF TypeOK, WriteAnchor
    <3> QED  BY <3>1 DEF AnchorsIInv, Counted
  <2> QED  BY <2>1, <2>2
<1> QED  BY <1>2, <1>3, <1>4, <1>5, <1>6 DEF AnchorsIInv

\* A record of failure is written only where it may stand.
LEMMA ReportKeeps ==
    ASSUME AnchorsIInv, NEW p \in Pairs, NEW reason \in Reasons \cup {"None"},
           Report(p, reason), reason = "VerifierUnavailable" => anchor[p] = NoHash
    PROVE  AnchorsIInv'
<1>1. TypeOK /\ LatestPaid /\ SettlerAnchorsBacked /\ UnavailableMeansUnanchored
  BY DEF AnchorsIInv
<1>2. TypeOK'  BY <1>1 DEF TypeOK, Report, payments, history
<1>3. LatestPaid' /\ SettlerAnchorsBacked'
  BY <1>1 DEF LatestPaid, SettlerAnchorsBacked, Report, payments, history
<1>4. UnavailableMeansUnanchored'
  BY <1>1 DEF TypeOK, UnavailableMeansUnanchored, Report
<1>5. \A q \in Pairs : Counted(q)'
  BY DEF AnchorsIInv, Counted, Report, history
<1> QED  BY <1>2, <1>3, <1>4, <1>5 DEF AnchorsIInv

\* A ledger Backoff after the last of a spaced sequence keeps it spaced.
LEMMA SpacedAppend ==
    ASSUME NEW s \in Seq(Nat), NEW g \in Nat, NEW b \in Nat, NEW last \in Nat,
           Len(s) > 0 => last + b <= g,
           \A i \in 1 .. Len(s) : s[i] <= last,
           \A i, j \in 1 .. Len(s) : i < j => s[j] >= s[i] + b
    PROVE  LET t == Append(s, g) IN
           /\ Len(t) = Len(s) + 1 /\ t[Len(t)] = g
           /\ \A i \in 1 .. Len(t) : t[i] <= g
           /\ \A i, j \in 1 .. Len(t) : i < j => t[j] >= t[i] + b
<1> DEFINE t == Append(s, g)
<1>1. /\ Len(s) \in Nat /\ Len(t) = Len(s) + 1 /\ t[Len(s) + 1] = g
      /\ \A i \in 1 .. Len(s) : t[i] = s[i] /\ s[i] \in Nat
  OBVIOUS
<1> HIDE DEF t
<1>2. \A i \in 1 .. Len(s) : t[i] \in Nat /\ t[i] + b <= g
  <2> TAKE i \in 1 .. Len(s)
  <2>1. Len(s) > 0 /\ t[i] = s[i] /\ s[i] \in Nat  BY <1>1
  <2>2. last + b <= g /\ s[i] <= last  BY <2>1
  <2> QED  BY <2>1, <2>2
<1>3. \A i \in 1 .. Len(t) : t[i] \in Nat /\ t[i] <= g
  BY <1>1, <1>2
<1>4. ASSUME NEW i \in 1 .. Len(t), NEW j \in 1 .. Len(t), i < j PROVE t[j] >= t[i] + b
  <2>0. i \in 1 .. Len(s)  BY <1>1, <1>4
  <2>1. CASE j = Len(s) + 1  BY <1>1, <1>2, <2>0, <2>1
  <2>2. CASE j \in 1 .. Len(s)
    <3>1. t[i] = s[i] /\ t[j] = s[j]  BY <1>1, <2>0, <2>2
    <3> QED  BY <3>1, <2>0, <2>2, <1>4
  <2>3. j = Len(s) + 1 \/ j \in 1 .. Len(s)  BY <1>1
  <2> QED  BY <2>1, <2>2, <2>3
<1>5. t[Len(t)] = g  BY <1>1
<1> QED  BY <1>1, <1>3, <1>4, <1>5 DEF t

\* An attempt is counted only below the limit and after the back-off.
LEMMA RejectAttemptKeeps ==
    ASSUME AnchorsIInv, NEW p \in Pairs, ~Throttled(p), RejectAttempt(p)
    PROVE  AnchorsIInv'
<1> USE AnchorsAssumption
<1>1. TypeOK /\ LatestPaid /\ SettlerAnchorsBacked /\ UnavailableMeansUnanchored /\ Counted(p)
  BY DEF AnchorsIInv
<1>2. /\ attempts[p] \in [count : 0 .. MaxAttempts, last : 0 .. MaxLedger]
      /\ rejections[p] \in Seq(0 .. MaxLedger) /\ ledger \in 0 .. MaxLedger
  BY <1>1 DEF TypeOK
<1>3. /\ attempts'[p] = [count |-> attempts[p].count + 1, last |-> ledger]
      /\ rejections'[p] = Append(rejections[p], ledger)
  BY <1>1 DEF TypeOK, RejectAttempt
<1>4. attempts[p].count + 1 \in 0 .. MaxAttempts
  BY <1>2 DEF Throttled
<1>5. TypeOK'
  BY <1>1, <1>2, <1>4 DEF TypeOK, RejectAttempt, payments
<1>6. LatestPaid' /\ SettlerAnchorsBacked' /\ UnavailableMeansUnanchored'
  BY <1>1 DEF LatestPaid, SettlerAnchorsBacked, UnavailableMeansUnanchored, RejectAttempt, payments
<1>7. Counted(p)'
  <2>1. /\ rejections[p] \in Seq(Nat) /\ attempts[p].last \in Nat
        /\ attempts[p].count \in Nat /\ ledger \in Nat
    <3>1. 0 .. MaxLedger \subseteq Nat  OBVIOUS
    <3>2. \A q \in Seq(0 .. MaxLedger) : q \in Seq(Nat)
      <4> TAKE q \in Seq(0 .. MaxLedger)
      <4> QED  BY <3>1
    <3> QED  BY <1>2, <3>2
  <2>2. Len(rejections[p]) > 0 => attempts[p].last + Backoff <= ledger
    BY <1>1, <2>1 DEF Counted, Throttled
  <2>3. /\ attempts[p].count = Len(rejections[p])
        /\ \A i \in 1 .. Len(rejections[p]) : rejections[p][i] <= attempts[p].last
        /\ \A i, j \in 1 .. Len(rejections[p]) :
              i < j => rejections[p][j] >= rejections[p][i] + Backoff
    BY <1>1 DEF Counted
  <2>4. LET t == Append(rejections[p], ledger) IN
        /\ Len(t) = Len(rejections[p]) + 1 /\ t[Len(t)] = ledger
        /\ \A i \in 1 .. Len(t) : t[i] <= ledger
        /\ \A i, j \in 1 .. Len(t) : i < j => t[j] >= t[i] + Backoff
    BY <2>1, <2>2, <2>3, SpacedAppend
  <2> QED  BY <1>3, <2>3, <2>4 DEF Counted
<1>8. ASSUME NEW q \in Pairs, q # p PROVE Counted(q)'
  <2>1. rejections'[q] = rejections[q] /\ attempts'[q] = attempts[q]
    BY <1>1, <1>8 DEF TypeOK, RejectAttempt
  <2> QED  BY <2>1 DEF AnchorsIInv, Counted
<1> QED  BY <1>5, <1>6, <1>7, <1>8 DEF AnchorsIInv

LEMMA AnchorsStepHolds == AnchorsIInv /\ [Next]_vars => AnchorsIInv'
<1> SUFFICES ASSUME AnchorsIInv, [Next]_vars PROVE AnchorsIInv'  OBVIOUS
<1> USE AnchorsAssumption
<1>1. TypeOK /\ LatestPaid /\ SettlerAnchorsBacked /\ UnavailableMeansUnanchored
  BY DEF AnchorsIInv
<1>2. ASSUME NEW r \in Resources, Register(r) PROVE AnchorsIInv'
  <2>1. TypeOK'  BY <1>1, <1>2 DEF TypeOK, Register, history
  <2> QED
    BY <2>1, <1>2 DEF AnchorsIInv, LatestPaid, SettlerAnchorsBacked, UnavailableMeansUnanchored,
       Counted, Register, history
<1>3. ASSUME NEW p \in Pairs, NEW h \in Hashes, WritePayment(p, h) PROVE AnchorsIInv'
  <2>1. TypeOK'  BY <1>1, <1>3 DEF TypeOK, WritePayment, history
  <2>2. LatestPaid'
    BY <1>1, <1>3, NoPairIsNoPair DEF TypeOK, LatestPaid, WritePayment
  <2>3. SettlerAnchorsBacked'
    BY <1>1, <1>3, NoPairIsNoPair DEF TypeOK, SettlerAnchorsBacked, WritePayment, history
  <2> QED
    BY <2>1, <2>2, <2>3, <1>3 DEF AnchorsIInv, UnavailableMeansUnanchored, Counted, WritePayment, history
<1>4. ASSUME NEW p \in Pairs, NEW h \in Hashes \cup {BadHash}, VerifierCall(p, h) PROVE AnchorsIInv'
  <2>1. CASE Anchorable(p, h) /\ WriteAnchor(p, h, "Verifier")
    BY <2>1, WriteAnchorKeeps DEF Anchorable
  <2>2. CASE ~Throttled(p) /\ RejectAttempt(p)
    BY <2>2, RejectAttemptKeeps
  <2> QED  BY <1>4, <2>1, <2>2 DEF VerifierCall, AnchorPurchaseReceipt, AttemptAnchor
<1>5. ASSUME NEW p \in Pairs, NEW h \in Hashes \cup {BadHash}, OverrideAnchor(p, h) PROVE AnchorsIInv'
  BY <1>5, WriteAnchorKeeps DEF OverrideAnchor
<1>6. ASSUME NEW p \in Pairs, NEW h \in Hashes \cup {BadHash}, RecordAnchorFailure(p, h)
      PROVE AnchorsIInv'
  BY <1>6, ReportKeeps DEF RecordAnchorFailure, Reasons
<1>7. ASSUME NEW p \in Pairs, NEW h \in Hashes \cup {BadHash}, RetryAnchor(p, h) PROVE AnchorsIInv'
  <2>1. CASE \E reason \in Reasons \ {"VerifierUnavailable"} : Report(p, reason)
    BY <2>1, ReportKeeps
  <2>2. CASE latest[p] # NoHash /\ h \in Hashes /\ Backed(p, h) /\ WriteAnchor(p, h, "Settler")
    <3>1. paidBy[h] = p  BY <1>1, <2>2 DEF LatestPaid, Backed
    <3> QED  BY <2>2, <3>1, WriteAnchorKeeps
  <2>3. CASE UNCHANGED vars
    BY <2>3 DEF AnchorsIInv, TypeOK, LatestPaid, SettlerAnchorsBacked, UnavailableMeansUnanchored,
       Counted, vars, payments, history
  <2> QED  BY <1>7, <2>1, <2>2, <2>3 DEF RetryAnchor, Reasons
<1>8. CASE AdvanceLedger
  <2>1. TypeOK'  BY <1>1, <1>8 DEF TypeOK, AdvanceLedger, payments, history
  <2> QED
    BY <2>1, <1>8 DEF AnchorsIInv, LatestPaid, SettlerAnchorsBacked, UnavailableMeansUnanchored,
       Counted, AdvanceLedger, payments, history
<1>9. CASE UNCHANGED vars
  BY <1>9 DEF AnchorsIInv, TypeOK, LatestPaid, SettlerAnchorsBacked, UnavailableMeansUnanchored,
     Counted, vars, payments, history
<1> QED
  BY <1>2, <1>3, <1>4, <1>5, <1>6, <1>7, <1>8, <1>9 DEF Next, SettlerCall

LEMMA AnchorsInvariant == Spec => []AnchorsIInv
BY AnchorsInitHolds, AnchorsStepHolds, PTL DEF Spec

\* The storage entries keep their types; the attempt counter its limit.
THEOREM AnchorsTyped == Spec => []TypeOK
<1>1. AnchorsIInv => TypeOK  BY DEF AnchorsIInv, TypeOK
<1> QED  BY <1>1, AnchorsInvariant, PTL

\* What the settler anchored is a payment of the pair.
THEOREM AnchorsSettlerBacked == Spec => []SettlerAnchorsBacked
BY AnchorsInvariant, PTL DEF AnchorsIInv

\* "No verifier available" is never said of an anchored pair.
THEOREM AnchorsUnavailableMeansUnanchored == Spec => []UnavailableMeansUnanchored
BY AnchorsInvariant, PTL DEF AnchorsIInv

\* Rejected attempts are limited and spaced.
THEOREM AnchorsRejectionsSpaced == Spec => []RejectionsSpaced
<1>1. AnchorsIInv => RejectionsSpaced
  BY AnchorsAssumption DEF AnchorsIInv, TypeOK, Counted, RejectionsSpaced
<1> QED  BY <1>1, AnchorsInvariant, PTL

\* Only the admin's override changes an anchor.
THEOREM AnchorsPermanence == Spec => AnchorsPermanent
<1> DEFINE Kept(p) == anchor[p] # NoHash /\ anchor'[p] # anchor[p] =>
                         anchor'[p] \in Hashes /\ writer'[p] = "Admin"
<1>1. ASSUME AnchorsIInv, NEW p \in Pairs, NEW q \in Pairs, NEW h \in Hashes, NEW by,
             WriteAnchor(p, h, by), anchor[p] = NoHash \/ by = "Admin"
      PROVE  Kept(q)
  <2>1. anchor \in [Pairs -> Hashes \cup {NoHash}]
        /\ writer \in [Pairs -> {"None", "Verifier", "Settler", "Admin"}]
    BY <1>1 DEF AnchorsIInv, TypeOK
  <2> QED  BY <1>1, <2>1 DEF WriteAnchor
<1>2. ASSUME AnchorsIInv, [Next]_vars, NEW q \in Pairs PROVE Kept(q)
  <2>1. ASSUME NEW r \in Resources, Register(r) PROVE Kept(q)
    BY <2>1 DEF Register
  <2>2. ASSUME NEW p \in Pairs, NEW h \in Hashes, WritePayment(p, h) PROVE Kept(q)
    BY <2>2 DEF WritePayment
  <2>3. ASSUME NEW p \in Pairs, NEW h \in Hashes \cup {BadHash}, VerifierCall(p, h)
        PROVE Kept(q)
    <3>1. CASE Anchorable(p, h) /\ WriteAnchor(p, h, "Verifier")
      BY <1>1, <1>2, <3>1 DEF Anchorable
    <3>2. CASE RejectAttempt(p)  BY <3>2 DEF RejectAttempt
    <3> QED  BY <2>3, <3>1, <3>2 DEF VerifierCall, AnchorPurchaseReceipt, AttemptAnchor
  <2>4. ASSUME NEW p \in Pairs, NEW h \in Hashes \cup {BadHash}, OverrideAnchor(p, h)
        PROVE Kept(q)
    BY <1>1, <1>2, <2>4 DEF OverrideAnchor
  <2>5. ASSUME NEW p \in Pairs, NEW h \in Hashes \cup {BadHash}, SettlerCall(p, h)
        PROVE Kept(q)
    <3>1. CASE anchor[p] = NoHash /\ h \in Hashes /\ WriteAnchor(p, h, "Settler")
      BY <1>1, <1>2, <3>1
    <3>2. CASE anchor' = anchor  BY <3>2
    <3> QED
      BY <2>5, <3>1, <3>2 DEF SettlerCall, RecordAnchorFailure, RetryAnchor, Report, vars
  <2>6. CASE AdvanceLedger  BY <2>6 DEF AdvanceLedger
  <2>7. CASE UNCHANGED vars  BY <2>7 DEF vars
  <2> QED  BY <1>2, <2>1, <2>2, <2>3, <2>4, <2>5, <2>6, <2>7 DEF Next
<1>3. ASSUME AnchorsIInv, [Next]_vars
      PROVE  [\A p \in Pairs : anchor[p] # NoHash /\ anchor'[p] # anchor[p] =>
                anchor'[p] \in Hashes /\ writer'[p] = "Admin"]_vars
  BY <1>2, <1>3
<1> QED  BY <1>3, AnchorsInvariant, PTL DEF Spec, AnchorsPermanent

----------------------------------------------------------------------------
(* Access leases.  The record of a pair forgets its earlier windows; the    *)
(* invariant says that they have all ended when it lets a new one begin.    *)

\* The windows of one pair, oldest first: disjoint, and over by ledger g.
Windows == [from : Nat, to : Nat]
Disjoint(s) == \A i, j \in 1 .. Len(s) : i < j => s[i].to <= s[j].from
Ended(s, g) == \A i \in 1 .. Len(s) : s[i].to <= g

\* What the record of a pair says of the windows sold to it before.
Sold(p) ==
    /\ Disjoint(windows[p])
    /\ lease[p] # NoLease => lease[p].start <= sequence
    /\ Waiting(p) => Ended(windows[p], lease[p].start)
    /\ lease[p] # NoLease /\ lease[p].state = "Active" =>
          Len(windows[p]) > 0 /\ windows[p][Len(windows[p])] = WindowOf(lease[p])
    /\ lease[p] = NoLease \/ lease[p].state = "Revoked" => Ended(windows[p], sequence)

LeasesIInv == LeasesTypeOK /\ \A p \in Tenancies : Sold(p)

\* A window that begins when all others have ended joins them.
LEMMA DisjointAppend ==
    ASSUME NEW s \in Seq(Windows), NEW w \in Windows, Disjoint(s), Ended(s, w.from)
    PROVE  /\ Append(s, w) \in Seq(Windows)
           /\ Len(Append(s, w)) = Len(s) + 1 /\ Append(s, w)[Len(s) + 1] = w
           /\ Disjoint(Append(s, w))
<1> DEFINE t == Append(s, w)
<1>1. /\ t \in Seq(Windows) /\ Len(s) \in Nat /\ Len(t) = Len(s) + 1 /\ t[Len(s) + 1] = w
      /\ \A i \in 1 .. Len(s) : t[i] = s[i]
  OBVIOUS
<1> HIDE DEF t
<1>2. ASSUME NEW i \in 1 .. Len(t), NEW j \in 1 .. Len(t), i < j PROVE t[i].to <= t[j].from
  <2>0. i \in 1 .. Len(s) /\ t[i] = s[i]  BY <1>1, <1>2
  <2>1. CASE j = Len(s) + 1  BY <1>1, <2>0, <2>1 DEF Ended
  <2>2. CASE j \in 1 .. Len(s)  BY <1>1, <1>2, <2>0, <2>2 DEF Disjoint
  <2> QED  BY <1>1, <2>1, <2>2
<1>3. Disjoint(t)  BY <1>2 DEF Disjoint
<1> QED  BY <1>1, <1>3 DEF t

\* Cutting the last window short ends them all.
LEMMA CutShortEnds ==
    ASSUME NEW s \in Seq(Windows), Len(s) > 0, sequence \in Nat, Disjoint(s),
           s[Len(s)].from <= sequence
    PROVE  CutShort(s) \in Seq(Windows) /\ Disjoint(CutShort(s)) /\ Ended(CutShort(s), sequence)
<1> DEFINE n == Len(s)
           t == CutShort(s)
           cut == IF sequence < s[n].to THEN sequence ELSE s[n].to
<1>0. n \in Nat /\ n > 0 /\ n \in 1 .. n /\ s[n] \in Windows  OBVIOUS
<1>1. cut \in Nat /\ cut <= sequence  BY <1>0 DEF Windows
<1>2. t = [s EXCEPT ![n] = [from |-> s[n].from, to |-> cut]]  BY DEF CutShort
<1>3. [from |-> s[n].from, to |-> cut] \in Windows  BY <1>0, <1>1 DEF Windows
<1>4. /\ t \in Seq(Windows) /\ Len(t) = n
      /\ \A i \in 1 .. n : i # n => t[i] = s[i]
      /\ t[n].to = cut /\ t[n].from = s[n].from
  BY <1>0, <1>2, <1>3
<1> HIDE DEF t, cut
<1>5. ASSUME NEW i \in 1 .. n, NEW j \in 1 .. n, i < j PROVE t[i].to <= t[j].from
  <2>1. t[i] = s[i] /\ s[i].to <= s[j].from  BY <1>0, <1>4, <1>5 DEF Disjoint
  <2>2. t[j].from = s[j].from  BY <1>4
  <2> QED  BY <2>1, <2>2
<1>6. ASSUME NEW i \in 1 .. n PROVE t[i].to <= sequence
  <2>1. CASE i = n  BY <1>1, <1>4, <2>1
  <2>2. CASE i # n
    <3>1. t[i] = s[i] /\ s[i].to <= s[n].from  BY <1>0, <1>4, <2>2 DEF Disjoint
    <3>2. s[i] \in Windows /\ s[n] \in Windows  BY <1>0
    <3>3. s[i].to \in Nat /\ s[n].from \in Nat  BY <3>2 DEF Windows
    <3> QED  BY <3>1, <3>3
  <2> QED  BY <2>1, <2>2
<1> QED  BY <1>4, <1>5, <1>6 DEF Disjoint, Ended, t

\* The fields of a well-typed record.
LEMMA Tenancy ==
    ASSUME LeasesTypeOK, NEW p \in Tenancies
    PROVE  /\ windows[p] \in Seq(Windows) /\ sequence \in Nat
           /\ lease[p] # NoLease =>
                 /\ lease[p] \in LeaseRecords /\ lease[p].state \in LeaseStates
                 /\ lease[p].start \in Nat /\ lease[p].expiry \in Nat
                 /\ WindowOf(lease[p]) \in Windows
                 /\ WindowOf(lease[p]).from = lease[p].start
                 /\ WindowOf(lease[p]).to = lease[p].expiry
BY LeasesAssumption DEF LeasesTypeOK, Windows, LeaseRecords, WindowOf

\* Every window of a pair without an open lease is over.
LEMMA ClosedMeansEnded ==
    ASSUME LeasesIInv, NEW p \in Tenancies, ~StillOpen(p)
    PROVE  Ended(windows[p], sequence)
<1> DEFINE s == windows[p]
<1>1. Sold(p) /\ LeasesTypeOK  BY DEF LeasesIInv
<1>2. CASE lease[p] = NoLease \/ lease[p].state = "Revoked"
  BY <1>1, <1>2 DEF Sold
<1>3. CASE lease[p] # NoLease /\ lease[p].state = "Active"
  <2>1. /\ s \in Seq(Windows) /\ sequence \in Nat /\ Len(s) > 0 /\ s[Len(s)] = WindowOf(lease[p])
        /\ lease[p].start <= sequence /\ Disjoint(s)
        /\ s[Len(s)].from = lease[p].start /\ s[Len(s)].to = lease[p].expiry
        /\ lease[p].start \in Nat /\ lease[p].expiry \in Nat
    BY <1>1, <1>3, Tenancy DEF Sold
  <2>2. lease[p].expiry <= sequence  BY <1>3, <2>1 DEF StillOpen, GrantsAccess
  <2>3. ASSUME NEW i \in 1 .. Len(s) PROVE s[i].to <= sequence
    <3>1. CASE i = Len(s)  BY <2>1, <2>2, <3>1
    <3>2. CASE i # Len(s)
      <4>1. Len(s) \in Nat /\ i < Len(s) /\ Len(s) \in 1 .. Len(s)  BY <2>1, <3>2
      <4>2. s[i].to <= s[Len(s)].from  BY <2>1, <4>1 DEF Disjoint
      <4>3. s[i] \in Windows  BY <2>1
      <4>4. s[i].to \in Nat  BY <4>3 DEF Windows
      <4> QED  BY <2>1, <4>2, <4>4
    <3> QED  BY <3>1, <3>2
  <2> QED  BY <2>3 DEF Ended
<1>4. CASE Waiting(p)  BY <1>4 DEF StillOpen
<1> QED
  BY <1>1, <1>2, <1>3, <1>4, Tenancy DEF Waiting, LeaseStates

\* Nobody has a lease at first.
LEMMA LeasesInitHolds == LeasesInit => LeasesIInv
<1> SUFFICES ASSUME LeasesInit PROVE LeasesIInv  OBVIOUS
<1> USE LeasesAssumption DEF LeasesInit
<1>1. LeasesTypeOK
  <2>1. <<>> \in Seq([from : Nat, to : Nat])  OBVIOUS
  <2>2. windows \in [Tenancies -> Seq([from : Nat, to : Nat])]  BY <2>1
  <2>3. sequence \in 0 .. LastLedger
    <3>1. LastLedger \in Nat  OBVIOUS
    <3> QED  BY <3>1
  <2>4. price \in [Vaults -> Prices \cup {0}]
        /\ lease \in [Tenancies -> LeaseRecords \cup {NoLease}]
    OBVIOUS
  <2>5. payPaused \in BOOLEAN /\ forSale \subseteq Vaults  BY Zenon
  <2> QED  BY <2>2, <2>3, <2>4, <2>5, Zenon DEF LeasesTypeOK
<1>2. \A p \in Tenancies : Sold(p)
  BY DEF Sold, Disjoint, Ended, Waiting
<1> QED  BY <1>1, <1>2 DEF LeasesIInv

\* A step of one pair leaves what is said of the others.
LEMMA OtherTenancies ==
    ASSUME NEW p \in Tenancies, Sold(p),
           lease'[p] = lease[p], windows'[p] = windows[p], sequence' = sequence
    PROVE  Sold(p)'
BY DEF Sold, Disjoint, Ended, Waiting, WindowOf

\* A new lease starts where every earlier window has ended.
LEMMA WriteLeaseKeeps ==
    ASSUME LeasesIInv, NEW p \in Tenancies, NEW tier \in Tiers,
           NEW state \in {"Pending", "Active"}, WriteLease(p, tier, state),
           windows' = IF state = "Pending" THEN windows
                      ELSE [windows EXCEPT ![p] = Append(@, WindowOf(lease'[p]))]
    PROVE  LeasesIInv'
<1> USE LeasesAssumption
<1> DEFINE l == NewLease(p[1], tier, state)
<1>1. LeasesTypeOK /\ Sold(p)  BY DEF LeasesIInv
<1>2. p[1] \in Vaults /\ price[p[1]] \in Nat /\ sequence \in Nat /\ windows[p] \in Seq(Windows)
  <2>1. p[1] \in Vaults  BY DEF Tenancies
  <2>2. price[p[1]] \in Prices \cup {0}  BY <1>1, <2>1 DEF LeasesTypeOK
  <2>3. \A x \in Prices \cup {0} : x \in Nat  OBVIOUS
  <2>4. price[p[1]] \in Nat  BY <2>2, <2>3
  <2> QED  BY <1>1, <2>1, <2>4, Tenancy
<1>3. l \in LeaseRecords
  <2>1. LeasePrice(p[1], tier) \in Nat
    BY <1>2 DEF LeasePrice, TierMultiplier, Tiers
  <2>2. sequence + TierLedgers[tier] \in Nat  BY <1>2
  <2> QED  BY <1>2, <2>1, <2>2 DEF NewLease, LeaseRecords, LeaseStates
<1>4. lease'[p] = l /\ l # NoLease /\ l.start = sequence /\ l.state = state
      /\ WindowOf(l) \in Windows /\ WindowOf(l).from = sequence
      /\ (\A q \in Tenancies : q # p => lease'[q] = lease[q])
      /\ lease' \in [Tenancies -> LeaseRecords \cup {NoLease}]
  <2>1. lease'[p] = l /\ l # NoLease /\ l.start = sequence /\ l.state = state
    BY <1>1, <1>3 DEF LeasesTypeOK, WriteLease, NewLease
  <2>2. l.expiry \in Nat  BY <1>3 DEF LeaseRecords
  <2>3. WindowOf(l) \in Windows /\ WindowOf(l).from = sequence
    BY <1>2, <2>1, <2>2 DEF WindowOf, Windows
  <2>4. \A q \in Tenancies : q # p => lease'[q] = lease[q]
    BY <1>1 DEF LeasesTypeOK, WriteLease
  <2>5. lease' \in [Tenancies -> LeaseRecords \cup {NoLease}]
    BY <1>1, <1>3 DEF LeasesTypeOK, WriteLease
  <2> QED  BY <2>1, <2>3, <2>4, <2>5
<1> HIDE DEF l
<1>5. sequence' = sequence /\ catalog' = catalog /\ ~StillOpen(p)  BY DEF WriteLease
<1>6. Ended(windows[p], sequence) /\ Disjoint(windows[p])
  BY <1>1, <1>5, ClosedMeansEnded DEF Sold
<1>7. CASE state = "Pending"
  <2>1. LeasesTypeOK'  BY <1>1, <1>4, <1>5, <1>7 DEF LeasesTypeOK, catalog
  <2>2. Sold(p)'
    BY <1>2, <1>4, <1>5, <1>6, <1>7 DEF Sold, Waiting, Disjoint, Ended
  <2>3. \A q \in Tenancies : Sold(q)'
    BY <1>4, <1>5, <1>7, <2>2, OtherTenancies DEF LeasesIInv
  <2> QED  BY <2>1, <2>3 DEF LeasesIInv
<1>8. CASE state = "Active"
  <2>1. windows' = [windows EXCEPT ![p] = Append(windows[p], WindowOf(l))]
    BY <1>4, <1>8
  <2>2. /\ Append(windows[p], WindowOf(l)) \in Seq(Windows)
        /\ Len(Append(windows[p], WindowOf(l))) = Len(windows[p]) + 1
        /\ Append(windows[p], WindowOf(l))[Len(windows[p]) + 1] = WindowOf(l)
        /\ Disjoint(Append(windows[p], WindowOf(l)))
    BY <1>2, <1>4, <1>6, DisjointAppend
  <2>3. /\ windows'[p] = Append(windows[p], WindowOf(l))
        /\ \A q \in Tenancies : q # p => windows'[q] = windows[q]
        /\ windows' \in [Tenancies -> Seq(Windows)]
    BY <1>1, <2>1, <2>2 DEF LeasesTypeOK, Windows
  <2>4. LeasesTypeOK'
    BY <1>1, <1>4, <1>5, <2>3 DEF LeasesTypeOK, catalog, Windows
  <2>5. Len(windows'[p]) > 0 /\ windows'[p][Len(windows'[p])] = WindowOf(l) /\ Disjoint(windows'[p])
    <3>1. Len(windows[p]) \in Nat  BY <1>2
    <3> QED  BY <2>2, <2>3, <3>1
  <2>6. Sold(p)'
    BY <1>2, <1>4, <1>5, <1>8, <2>5 DEF Sold, Waiting, Disjoint, WindowOf
  <2>7. \A q \in Tenancies : Sold(q)'
    BY <1>4, <1>5, <2>3, <2>6, OtherTenancies DEF LeasesIInv
  <2> QED  BY <2>4, <2>7 DEF LeasesIInv
<1> QED  BY <1>7, <1>8

\* A confirmed lease gets the window it was sold with.
LEMMA SettleLeaseKeeps ==
    ASSUME LeasesIInv, NEW p \in Tenancies, SettleLease(p)
    PROVE  LeasesIInv'
<1> USE LeasesAssumption
<1> DEFINE l == Confirmed(lease[p])
<1>1. LeasesTypeOK /\ Sold(p) /\ lease[p] # NoLease /\ Waiting(p)
  BY DEF LeasesIInv, SettleLease, Waiting
<1>2. /\ windows[p] \in Seq(Windows) /\ sequence \in Nat /\ lease[p] \in LeaseRecords
      /\ lease[p].start <= sequence
      /\ Ended(windows[p], lease[p].start) /\ Disjoint(windows[p])
  BY <1>1, Tenancy DEF Sold
<1>3. l \in LeaseRecords /\ l.start = lease[p].start /\ l.state = "Active"
      /\ WindowOf(l) \in Windows /\ WindowOf(l).from = lease[p].start
  BY <1>2 DEF LeaseRecords, LeaseStates, Confirmed, WindowOf, Windows
<1>4. lease'[p] = l /\ l # NoLease /\ sequence' = sequence /\ catalog' = catalog
      /\ (\A q \in Tenancies : q # p => lease'[q] = lease[q])
      /\ lease' \in [Tenancies -> LeaseRecords \cup {NoLease}]
  BY <1>1, <1>3 DEF LeasesTypeOK, SettleLease
<1> HIDE DEF l
<1>5. windows' = [windows EXCEPT ![p] = Append(windows[p], WindowOf(l))]
  <2>1. WindowOf(l) = WindowOf(lease[p])  BY <1>2 DEF l, LeaseRecords, Confirmed, WindowOf
  <2> QED  BY <2>1 DEF SettleLease
<1>6. /\ Append(windows[p], WindowOf(l)) \in Seq(Windows)
      /\ Len(Append(windows[p], WindowOf(l))) = Len(windows[p]) + 1
      /\ Append(windows[p], WindowOf(l))[Len(windows[p]) + 1] = WindowOf(l)
      /\ Disjoint(Append(windows[p], WindowOf(l)))
  BY <1>2, <1>3, DisjointAppend
<1>7. /\ windows'[p] = Append(windows[p], WindowOf(l))
      /\ \A q \in Tenancies : q # p => windows'[q] = windows[q]
      /\ windows' \in [Tenancies -> Seq(Windows)]
  BY <1>1, <1>5, <1>6 DEF LeasesTypeOK, Windows
<1>8. LeasesTypeOK'
  BY <1>1, <1>4, <1>7 DEF LeasesTypeOK, catalog, Windows
<1>9. Len(windows'[p]) > 0 /\ windows'[p][Len(windows'[p])] = WindowOf(l) /\ Disjoint(windows'[p])
  <2>1. Len(windows[p]) \in Nat  BY <1>2
  <2> QED  BY <1>6, <1>7, <2>1
<1>10. Sold(p)'
  BY <1>2, <1>3, <1>4, <1>9 DEF Sold, Waiting, Disjoint, WindowOf
<1>11. \A q \in Tenancies : Sold(q)'
  BY <1>4, <1>7, <1>10, OtherTenancies DEF LeasesIInv
<1> QED  BY <1>8, <1>11 DEF LeasesIInv

\* A revocation ends the window, if there is one.
LEMMA RevokeLeaseKeeps ==
    ASSUME LeasesIInv, NEW p \in Tenancies, RevokeLease(p)
    PROVE  LeasesIInv'
<1> USE LeasesAssumption
<1> DEFINE l == [lease[p] EXCEPT !.state = "Revoked"]
<1>1. LeasesTypeOK /\ Sold(p) /\ lease[p] # NoLease /\ lease[p].state # "Revoked"
  BY DEF LeasesIInv, RevokeLease
<1>2. /\ windows[p] \in Seq(Windows) /\ sequence \in Nat /\ lease[p] \in LeaseRecords
      /\ lease[p].start \in Nat /\ lease[p].start <= sequence /\ lease[p].state \in LeaseStates
      /\ Disjoint(windows[p]) /\ WindowOf(lease[p]).from = lease[p].start
  BY <1>1, Tenancy DEF Sold
<1>3. l \in LeaseRecords /\ l.start = lease[p].start /\ l.state = "Revoked"
  BY <1>2 DEF LeaseRecords, LeaseStates
<1>4. lease'[p] = l /\ l # NoLease /\ sequence' = sequence /\ catalog' = catalog
      /\ (\A q \in Tenancies : q # p => lease'[q] = lease[q])
      /\ lease' \in [Tenancies -> LeaseRecords \cup {NoLease}]
  BY <1>1, <1>3 DEF LeasesTypeOK, RevokeLease
<1> HIDE DEF l
<1>5. CASE Waiting(p)
  <2>1. windows' = windows  BY <1>5 DEF RevokeLease
  <2>2. LeasesTypeOK'  BY <1>1, <1>4, <2>1 DEF LeasesTypeOK, catalog
  <2>3. Ended(windows[p], sequence)
    <3>1. Ended(windows[p], lease[p].start)  BY <1>1, <1>5 DEF Sold
    <3>2. \A i \in 1 .. Len(windows[p]) : windows[p][i] \in Windows  BY <1>2
    <3> QED  BY <1>2, <3>1, <3>2 DEF Ended, Windows
  <2>4. Sold(p)'
    BY <1>2, <1>3, <1>4, <2>1, <2>3 DEF Sold, Waiting, Disjoint, Ended
  <2>5. \A q \in Tenancies : Sold(q)'
    BY <1>4, <2>1, <2>4, OtherTenancies DEF LeasesIInv
  <2> QED  BY <2>2, <2>5 DEF LeasesIInv
<1>6. CASE ~Waiting(p)
  <2>1. windows' = [windows EXCEPT ![p] = CutShort(windows[p])]  BY <1>6 DEF RevokeLease
  <2>2. lease[p].state = "Active"  BY <1>1, <1>2, <1>6 DEF Waiting, LeaseStates
  <2>3. Len(windows[p]) > 0 /\ windows[p][Len(windows[p])].from <= sequence
    BY <1>1, <1>2, <2>2 DEF Sold
  <2>4. /\ CutShort(windows[p]) \in Seq(Windows)
        /\ Disjoint(CutShort(windows[p])) /\ Ended(CutShort(windows[p]), sequence)
    BY <1>2, <2>3, CutShortEnds
  <2>5. /\ windows'[p] = CutShort(windows[p])
        /\ \A q \in Tenancies : q # p => windows'[q] = windows[q]
        /\ windows' \in [Tenancies -> Seq(Windows)]
    BY <1>1, <2>1, <2>4 DEF LeasesTypeOK, Windows
  <2>6. LeasesTypeOK'
    BY <1>1, <1>4, <2>5 DEF LeasesTypeOK, catalog, Windows
  <2>7. Disjoint(windows'[p]) /\ Ended(windows'[p], sequence)  BY <2>4, <2>5
  <2>8. Sold(p)'
    BY <1>2, <1>3, <1>4, <2>7 DEF Sold, Waiting, Disjoint, Ended
  <2>9. \A q \in Tenancies : Sold(q)'
    BY <1>4, <2>5, <2>8, OtherTenancies DEF LeasesIInv
  <2> QED  BY <2>6, <2>9 DEF LeasesIInv
<1> QED  BY <1>5, <1>6

\* Only the four calls and the ledger touch what Sold speaks of.
LEMMA LeasesStepHolds == LeasesIInv /\ [LeasesNext]_leasesVars => LeasesIInv'
<1> SUFFICES ASSUME LeasesIInv, [LeasesNext]_leasesVars PROVE LeasesIInv'  OBVIOUS
<1> USE LeasesAssumption
<1>0. LeasesTypeOK /\ \A p \in Tenancies : Sold(p)  BY DEF LeasesIInv
<1>1. ASSUME LeasesTypeOK', lease' = lease, windows' = windows, sequence' = sequence PROVE LeasesIInv'
  BY <1>0, <1>1, OtherTenancies DEF LeasesIInv
<1>2. ASSUME NEW r \in Vaults, NEW amount \in Prices,
             RegisterVault(r, amount) \/ RepriceVault(r, amount)
      PROVE  LeasesIInv'
  <2>1. LeasesTypeOK'
    BY <1>0, <1>2 DEF LeasesTypeOK, RegisterVault, RepriceVault
  <2> QED  BY <1>1, <1>2, <2>1 DEF RegisterVault, RepriceVault
<1>3. ASSUME NEW r \in Vaults, ToggleSale(r) PROVE LeasesIInv'
  <2>1. LeasesTypeOK'  BY <1>0, <1>3 DEF LeasesTypeOK, ToggleSale
  <2> QED  BY <1>1, <1>3, <2>1 DEF ToggleSale
<1>4. CASE TogglePaymentPause
  <2>1. LeasesTypeOK'  BY <1>0, <1>4 DEF LeasesTypeOK, TogglePaymentPause
  <2> QED  BY <1>1, <1>4, <2>1 DEF TogglePaymentPause
<1>5. CASE NextLedger
  <2>1. LeasesTypeOK' /\ sequence' = sequence + 1 /\ lease' = lease /\ windows' = windows
    BY <1>0, <1>5 DEF LeasesTypeOK, NextLedger, catalog
  <2>2. ASSUME NEW p \in Tenancies PROVE Sold(p)'
    <3>1. Sold(p) /\ windows[p] \in Seq(Windows) /\ sequence \in Nat
          /\ (lease[p] # NoLease => lease[p].start \in Nat)
      BY <1>0, Tenancy
    <3>2. \A i \in 1 .. Len(windows[p]) : windows[p][i].to \in Nat
      <4>1. \A i \in 1 .. Len(windows[p]) : windows[p][i] \in Windows  BY <3>1
      <4> QED  BY <4>1 DEF Windows
    <3>3. Ended(windows[p], sequence) => Ended(windows[p], sequence')
      BY <2>1, <3>1, <3>2 DEF Ended
    <3>4. lease[p] # NoLease => lease[p].start <= sequence'
      BY <2>1, <3>1 DEF Sold
    <3> QED
      BY <2>1, <3>1, <3>3, <3>4 DEF Sold, Disjoint, Ended, Waiting, WindowOf
  <2> QED  BY <2>1, <2>2 DEF LeasesIInv
<1>6. ASSUME NEW p \in Tenancies, LeaseCall(p) PROVE LeasesIInv'
  <2>1. ASSUME NEW tier \in Tiers, BuyLease(p, tier) PROVE LeasesIInv'
    BY <2>1, WriteLeaseKeeps DEF BuyLease
  <2>2. ASSUME NEW tier \in Tiers, RecordLease(p, tier) PROVE LeasesIInv'
    BY <2>2, WriteLeaseKeeps DEF RecordLease
  <2> QED
    BY <1>6, <2>1, <2>2, SettleLeaseKeeps, RevokeLeaseKeeps DEF LeaseCall
<1>7. CASE UNCHANGED leasesVars
  BY <1>0, <1>1, <1>7 DEF leasesVars, catalog, LeasesTypeOK
<1> QED
  BY <1>2, <1>3, <1>4, <1>5, <1>6, <1>7 DEF LeasesNext

\* The inductive invariant holds.
LEMMA LeasesInvariant == LeasesSpec => []LeasesIInv
BY LeasesInitHolds, LeasesStepHolds, PTL DEF LeasesSpec

\* The storage entries of leases keep their types.
THEOREM LeasesTyped == LeasesSpec => []LeasesTypeOK
<1>1. LeasesIInv => LeasesTypeOK  BY DEF LeasesIInv
<1> QED  BY <1>1, LeasesInvariant, PTL

\* The windows confirmed for one holder never overlap.
THEOREM LeasesLedgersPaidOnce == LeasesSpec => []LedgersPaidOnce
<1>1. LeasesIInv => LedgersPaidOnce
  BY DEF LeasesIInv, Sold, Disjoint, LedgersPaidOnce
<1> QED  BY <1>1, LeasesInvariant, PTL

\* The paywall's read is true in exactly the ledgers of those windows.
THEOREM LeasesAccessAsConfirmed == LeasesSpec => []AccessAsConfirmed
<1> DEFINE Covered(p) == \E i \in 1 .. Len(windows[p]) :
                             windows[p][i].from <= sequence /\ sequence < windows[p][i].to
<1>1. ASSUME LeasesIInv, NEW p \in Tenancies PROVE GrantsAccess(p) <=> Covered(p)
  <2> DEFINE s == windows[p]
  <2>0. LeasesTypeOK /\ Sold(p)  BY <1>1 DEF LeasesIInv
  <2>1. s \in Seq(Windows) /\ sequence \in Nat /\ Len(s) \in Nat  BY <2>0, Tenancy
  <2>2. ASSUME GrantsAccess(p) PROVE Covered(p)
    <3>1. /\ lease[p] # NoLease /\ Len(s) > 0 /\ s[Len(s)] = WindowOf(lease[p])
          /\ lease[p].start <= sequence /\ sequence < lease[p].expiry
      BY <2>0, <2>2 DEF GrantsAccess, Sold
    <3>2. s[Len(s)].from = lease[p].start /\ s[Len(s)].to = lease[p].expiry
      BY <2>0, <3>1, Tenancy
    <3>3. Len(s) \in 1 .. Len(s)  BY <2>1, <3>1
    <3> QED  BY <3>1, <3>2, <3>3
  <2>3. ASSUME ~GrantsAccess(p), Covered(p) PROVE FALSE
    <3>1. PICK i \in 1 .. Len(s) : s[i].from <= sequence /\ sequence < s[i].to
      BY <2>3
    <3>2. s[i] \in Windows  BY <2>1
    <3>3. s[i].to \in Nat  BY <3>2 DEF Windows
    <3>4. CASE ~StillOpen(p)
      BY <1>1, <2>1, <3>1, <3>3, <3>4, ClosedMeansEnded DEF Ended
    <3>5. CASE Waiting(p)
      <4>1. lease[p] # NoLease /\ s[i].to <= lease[p].start /\ lease[p].start <= sequence
        BY <2>0, <3>5 DEF Sold, Waiting, Ended
      <4>2. lease[p].start \in Nat  BY <2>0, <4>1, Tenancy
      <4> QED  BY <2>1, <3>1, <3>3, <4>1, <4>2
    <3> QED  BY <2>3, <3>4, <3>5 DEF StillOpen
  <2> QED  BY <2>2, <2>3
<1>2. LeasesIInv => AccessAsConfirmed
  BY <1>1 DEF AccessAsConfirmed
<1> QED  BY <1>2, LeasesInvariant, PTL

\* What a lease was sold for, and until when, is never changed.
THEOREM LeasesTermsLocked == LeasesSpec => TermsLocked
<1> DEFINE Locked(p) == lease[p] # NoLease /\ lease'[p] # lease[p] =>
              \/ lease[p].state # "Revoked" /\ SameTerms(lease[p], lease'[p])
              \/ ~StillOpen(p) /\ lease'[p].start = sequence
<1>1. ASSUME LeasesIInv, [LeasesNext]_leasesVars, NEW p \in Tenancies PROVE Locked(p)
  <2>0. lease \in [Tenancies -> LeaseRecords \cup {NoLease}]
    BY <1>1 DEF LeasesIInv, LeasesTypeOK
  <2>1. CASE lease' = lease  BY <2>1
  <2>2. ASSUME NEW q \in Tenancies, LeaseCall(q) PROVE Locked(p)
    <3>1. CASE q # p
      BY <2>0, <2>2, <3>1 DEF LeaseCall, BuyLease, RecordLease, WriteLease, SettleLease, RevokeLease
    <3>2. CASE q = p
      <4>1. ASSUME NEW tier \in Tiers, BuyLease(p, tier) \/ RecordLease(p, tier) PROVE Locked(p)
        BY <2>0, <4>1 DEF BuyLease, RecordLease, WriteLease, NewLease
      <4>2. CASE SettleLease(p)
        BY <2>0, <4>2 DEF SettleLease, Waiting, Confirmed, LeaseRecords, SameTerms
      <4>3. CASE RevokeLease(p)
        BY <2>0, <4>3 DEF RevokeLease, LeaseRecords, SameTerms
      <4> QED  BY <2>2, <3>2, <4>1, <4>2, <4>3 DEF LeaseCall
    <3> QED  BY <3>1, <3>2
  <2> QED
    BY <1>1, <2>1, <2>2 DEF LeasesNext, RegisterVault, RepriceVault, ToggleSale,
       TogglePaymentPause, NextLedger, leasesVars
<1>2. ASSUME LeasesIInv, [LeasesNext]_leasesVars
      PROVE  [\A p \in Tenancies :
                lease[p] # NoLease /\ lease'[p] # lease[p] =>
                  \/ lease[p].state # "Revoked" /\ SameTerms(lease[p], lease'[p])
                  \/ ~StillOpen(p) /\ lease'[p].start = sequence]_leasesVars
  BY <1>1, <1>2
<1> QED  BY <1>2, LeasesInvariant, PTL DEF LeasesSpec, TermsLocked
=============================================================================
